---- MODULE Spec2Model ----
(***************************************************************************)
(* snapstream: the source registry (Conf), the distribution engine         *)
(* (Conf.start / Conf.distribute_messages) and the handler binder (snap,   *)
(* _handler, _handle_generator_or_function, _sink_output).                 *)
(*                                                                         *)
(* One main thread registers sources and calls start(); start() spawns one *)
(* worker thread per registered (key, source) pair; each worker pulls the  *)
(* elements of its source, dispatches them through the bus to the bound    *)
(* handlers and their sinks, and reports on a queue of capacity one.       *)
(***************************************************************************)
EXTENDS Integers, Sequences, FiniteSets, TLC

\* ---------------------------------------------------------------- bounds
NumSources == 2
NumHandlers == 2
MaxLen == 2
MaxRuns == 2

Sources == 1..NumSources
Handlers == 1..NumHandlers
Runs == 1..MaxRuns

\* --------------------------------------------------------------- values
\* A Python value handed to a sink: a tuple of items, or a single object.
Scalar(x) == [tup |-> FALSE, items |-> <<x>>]
Tuple(xs) == [tup |-> TRUE, items |-> xs]
NoneVal == Scalar(-1)

\* The i-th element of source s (sources hold distinct elements).
Element(s, i) == 10 * (s - 1) + (i - 1)

\* str(id(it)): the bus topic a source is published and subscribed under.
IdOf(s) == s
\* A token that is the str(id(...)) of no source of the program.
Foreign == NumSources + 1
Keys == {IdOf(s) : s \in Sources} \cup {Foreign}

\* How the iteration of a source ends after its elements: exhausted, an
\* exception raised by the iterator, or a pull that never returns.
EndKinds == {"stop", "ValueError", "KeyboardInterrupt", "forever"}
SourceShapes == [len : 0..MaxLen, end : EndKinds]

\* A user function: its declared parameters and what it returns.
RetKinds == {"val", "pair", "triple", "gen", "gen2", "raise"}
SinkKinds == {"Cache", "Topic", "fn"}
SinkLists == {<<>>} \cup {<<a>> : a \in SinkKinds}
                \cup {<<a, b>> : a \in SinkKinds, b \in SinkKinds}
HandlerShapes == [npos : 0..1, varkw : BOOLEAN, ret : RetKinds, sinks : SinkLists]

\* run(**kwargs): the keyword arguments of a run, as a set of (name, value).
KwargSets == {{}, {<<"env", 1>>}}

NoWorker == <<0, 0, 0>>
None == [kind |-> "None", by |-> NoWorker, at |-> "none"]

Workers == Runs \X Keys \X Sources
RunOf(w) == w[1]
KeyOf(w) == w[2]
SourceOf(w) == w[3]

VARIABLES
    src,        \* the iterables: shape of every source
    hcfg,       \* the user functions: shape of every handler
    iterables,  \* Conf.iterables: set of (key, source)
    subs,       \* the bus: listeners subscribed under each key, in order
    bound,      \* the handlers already created by a snap decoration
    budget,     \* number of start() calls the caller still makes
    run,        \* number of start() calls begun
    kw,         \* kwargs of each run
    mainpc,     \* position of the main thread
    threads,    \* the thread list of each run
    queue,      \* the Queue(maxsize=1) of each run
    result,     \* how each start() call ended
    wk,         \* per worker: position and dispatch state
    calls,      \* per worker: the user function calls made, in order
    writes,     \* per worker: the sink calls made, in order
    starts,     \* per worker: number of times distribute_messages began
    puts        \* per run: the exceptions put on the queue, in order

\* One Topic instance and the program that uses it.
VARIABLES
    tcfg,           \* the Topic's constructor arguments
    env,            \* what the caller's program and the broker do
    consumers,      \* every Consumer handle created, in order
    _consumer,      \* Topic._consumer: 0 (None) or a handle of consumers
    iters,          \* the iterations (generators) created on the Topic, in order
    producers,      \* number of Producer handles created
    _producer,      \* Topic._producer: 0 (None) or the number of a handle
    _producer_ctx,  \* Topic._producer_ctx: "None" or what __enter__ returned
    pushfns,        \* number of push functions created
    tcalls,         \* the calls topic(val, key) made by the caller, in order
    pushes,         \* the calls made to the push function, in order
    plog,           \* the calls made on the Producer handle, in order
    warnings,       \* number of logger.warning calls of the push function
    deleted,        \* the outcome of Topic.__del__, "no" while it has not run
    _consumer_ctx,  \* Topic._consumer_ctx: 0 (None) or an iteration of iters
    nexts           \* the calls next(topic) made by the caller, in order

engineVars == <<src, hcfg, iterables, subs, bound, budget, run, kw, mainpc, threads,
                queue, result, wk, calls, writes, starts, puts>>
consumeVars == <<consumers, _consumer, iters>>
produceVars == <<producers, _producer, _producer_ctx, pushfns, tcalls, pushes,
                 plog, warnings, deleted>>
ctxVars == <<_consumer_ctx, nexts>>
topicVars == <<tcfg, env, consumeVars, produceVars, ctxVars>>

\* The Registry (the Conf singleton), the Topics built from it and the broker's
\* topic administration.
VARIABLES
    _instances,     \* Singleton._instances[Conf]: 0 (absent) or the object
    made,           \* number of Conf objects constructed
    got,            \* the objects returned by the calls Conf(...) so far
    hist,           \* the overrides passed to Conf(...), in order
    dicts,          \* every dict created, in order
    conf,           \* Conf().conf: 0 or a dict of dicts
    topics,         \* the Topics constructed, in order
    exists,         \* whether the broker has the topic
    admin,          \* the create_topic calls made, in order
    todo            \* number of calls the program still makes

confVars == <<_instances, made, got, hist, dicts, conf, topics, exists, admin, todo>>

vars == <<engineVars, topicVars, confVars>>

cfgVars == <<src, hcfg, budget>>
regVars == <<iterables, subs, bound>>
mainVars == <<run, kw, mainpc, threads, result>>
logVars == <<calls, writes>>

IdleWorker == [pc |-> "none", pos |-> 0, hi |-> 0, vi |-> 0, si |-> 0,
               out |-> <<>>, exc |-> None]

\* ------------------------------------------------------ the handler binder
\* No call made on the sink.
NoSinkCall == [exc |-> "none", form |-> "none", key |-> NoneVal, val |-> NoneVal]

\* (C8) A routing that hands a non-tuple to the Cache as a plain argument.
_sink_output_NoCheck(s, output) ==
    IF output.tup /\ s \in {"Cache", "Topic"}
    THEN IF Len(output.items) = 2
         THEN [exc |-> "none", form |-> "kw",
               key |-> Scalar(output.items[1]), val |-> Scalar(output.items[2])]
         ELSE [exc |-> "ValueError", form |-> "none", key |-> NoneVal, val |-> NoneVal]
    ELSE [exc |-> "none", form |-> "pos", key |-> NoneVal, val |-> output]

\* _sink_output(s, output): the call made on sink s, or the error raised.
_sink_output(s, output) ==
    IF ~output.tup /\ s = "Cache"
    THEN [NoSinkCall EXCEPT !.exc = "ValueError"]
    ELSE IF output.tup /\ s \in {"Cache", "Topic"}
    THEN IF Len(output.items) = 2
         THEN [exc |-> "none", form |-> "kw",
               key |-> Scalar(output.items[1]), val |-> Scalar(output.items[2])]
         ELSE [NoSinkCall EXCEPT !.exc = "ValueError"]  \* key, val = output
    ELSE [exc |-> "none", form |-> "pos", key |-> NoneVal, val |-> output]

\* What the user function returns for msg: a generator object producing
\* values, or one value.
GeneratorObject == Scalar(-2)

Returned(shape, msg) ==
    CASE shape.ret = "val"    -> [gen |-> FALSE, vals |-> <<>>, val |-> Scalar(msg)]
      [] shape.ret = "pair"   -> [gen |-> FALSE, vals |-> <<>>, val |-> Tuple(<<msg, 7>>)]
      [] shape.ret = "triple" -> [gen |-> FALSE, vals |-> <<>>, val |-> Tuple(<<msg, 7, 8>>)]
      [] shape.ret = "gen"    -> [gen |-> TRUE, val |-> GeneratorObject,
                                  vals |-> <<Tuple(<<msg, 7>>), Scalar(msg)>>]
      [] shape.ret = "gen2"   -> [gen |-> TRUE, val |-> GeneratorObject,
                                  vals |-> <<Tuple(<<msg, 7>>), Tuple(<<msg, 8>>)>>]
      [] OTHER                -> [gen |-> FALSE, vals |-> <<>>, val |-> NoneVal]

\* (C9) A routing that hands a generator to the sinks as one value.
_handle_generator_or_function_Single(output) == <<output.val>>

\* _handle_generator_or_function: the values routed, each to every sink.
_handle_generator_or_function(output) ==
    IF output.gen THEN output.vals ELSE <<output.val>>

\* (C7) A dispatcher that passes the run kwargs to every user function.
_handler_AlwaysKwargs(shape, msg, kwargs) == [args |-> <<msg>>, kwargs |-> kwargs]

\* _handler(msg, kwargs): the call made on the user function.
_handler(shape, msg, kwargs) ==
    IF shape.varkw
    THEN [args |-> <<msg>>, kwargs |-> kwargs]
    ELSE IF shape.npos + (IF shape.varkw THEN 1 ELSE 0) > 0
    THEN [args |-> <<msg>>, kwargs |-> {}]
    ELSE [args |-> <<>>, kwargs |-> {}]

\* A user function that raises: a ValueError, or a KeyboardInterrupt.
Raising == {"raise", "interrupt"}
Thrown(shape) == IF shape.ret = "interrupt" THEN "KeyboardInterrupt" ELSE "ValueError"

\* Python binds the call to the declared parameters, or raises TypeError.
CallBinds(shape, call) ==
    /\ Len(call.args) <= shape.npos
    /\ (call.kwargs = {} \/ shape.varkw)

\* ------------------------------------------------------------------ Init
DefaultHandler == [npos |-> 1, varkw |-> FALSE, ret |-> "val", sinks |-> <<"fn">>]
PlainSource == [len |-> 1, end |-> "stop"]

\* The state after import: nothing registered, nothing subscribed, no run.
\* Topic.__init__: no handle, no context.
NewTopic ==
    /\ consumers = <<>>
    /\ _consumer = 0
    /\ iters = <<>>
    /\ producers = 0
    /\ _producer = 0
    /\ _producer_ctx = "None"
    /\ pushfns = 0
    /\ tcalls = <<>>
    /\ pushes = <<>>
    /\ plog = <<>>
    /\ warnings = 0
    /\ deleted = "no"
    /\ _consumer_ctx = 0
    /\ nexts = <<>>

\* A program that makes no use of its Topic.
\* A value of the conf mapping, with the text str() gives for it.
PyNone == [py |-> "None", text |-> "None"]
PyBool(b) == [py |-> "bool", text |-> IF b THEN "True" ELSE "False"]
PyStr(t) == [py |-> "str", text |-> t]

DefaultTopic == [offset |-> <<>>, raise_error |-> FALSE, dry |-> FALSE,
                 codec |-> FALSE, flush_timeout |-> "-1.0",
                 auto_commit |-> PyNone, commit_each_message |-> FALSE]
NoTopicUse ==
    /\ tcfg = DefaultTopic
    /\ env = [exprs |-> {}, iters |-> 0, sends |-> 0, errors |-> FALSE,
              partitions |-> <<0>>]
    /\ NewTopic

\* No Registry yet, nothing built from it.
NoRegistry ==
    /\ _instances = 0
    /\ made = 0
    /\ got = {}
    /\ hist = <<>>
    /\ dicts = <<>>
    /\ conf = 0
    /\ topics = <<>>
    /\ admin = <<>>

\* A program whose configuration plays no part.
NoConfUse ==
    /\ NoRegistry
    /\ exists = FALSE
    /\ todo = 0

\* The caller's program fixes its sources, its user functions and the
\* number of start() calls it makes.
Fresh(n) ==
    /\ budget = n
    /\ iterables = {}
    /\ subs = [k \in Keys |-> <<>>]
    /\ bound = {}
    /\ run = 0
    /\ kw = [r \in Runs |-> {}]
    /\ mainpc = "idle"
    /\ threads = [r \in Runs |-> {}]
    /\ queue = [r \in Runs |-> <<>>]
    /\ result = [r \in Runs |-> [how |-> "none", exc |-> None, intr |-> FALSE]]
    /\ wk = [w \in Workers |-> IdleWorker]
    /\ calls = [w \in Workers |-> <<>>]
    /\ writes = [w \in Workers |-> <<>>]
    /\ starts = [w \in Workers |-> 0]
    /\ puts = [r \in Runs |-> <<>>]

\* Programs that exercise the engine: every shape of source, one plain
\* handler, one run.
Init ==
    /\ src \in [Sources -> SourceShapes]
    /\ hcfg = [h \in {1} |-> DefaultHandler]
    /\ Fresh(1)
    /\ NoTopicUse
    /\ NoConfUse

\* Programs that exercise the binder: one source of MaxLen elements, every
\* shape of user function, one run.
InitBind ==
    /\ src = [s \in {1} |-> [len |-> MaxLen, end |-> "stop"]]
    /\ hcfg \in [{1} -> HandlerShapes]
    /\ Fresh(1)
    /\ NoTopicUse
    /\ NoConfUse

\* Programs that call start() several times, on one short source.
RunShapes == [len : 0..1, end : EndKinds]

InitRuns ==
    /\ src \in [{1} -> RunShapes]
    /\ hcfg = [h \in {1} |-> DefaultHandler]
    /\ Fresh(MaxRuns)
    /\ NoTopicUse
    /\ NoConfUse

\* Programs that bind two handlers to two sources in every way: a source
\* of MaxLen elements and a source of one element that may raise.
InitFan ==
    /\ \E e \in {"stop", "ValueError"} :
          src = [s \in {1, 2} |-> IF s = 1 THEN [len |-> MaxLen, end |-> "stop"]
                                 ELSE [len |-> 1, end |-> e]]
    /\ hcfg = [h \in {1, 2} |-> DefaultHandler]
    /\ Fresh(1)
    /\ NoTopicUse
    /\ NoConfUse

\* One source of one element that may raise, and one handler taking
\* the message and the run kwargs.
InitToken ==
    /\ \E e \in {"stop", "ValueError"} : src = [s \in {1} |-> [len |-> 1, end |-> e]]
    /\ hcfg = [h \in {1} |-> [DefaultHandler EXCEPT !.varkw = TRUE]]
    /\ Fresh(1)
    /\ NoTopicUse
    /\ NoConfUse

\* A source of one element that may raise and an empty source, one handler,
\* and two runs.
InitLate ==
    /\ \E e \in {"stop", "ValueError"} :
          src = [s \in {1, 2} |-> IF s = 1 THEN [len |-> 1, end |-> e]
                                 ELSE [len |-> 0, end |-> "stop"]]
    /\ hcfg = [h \in {1} |-> DefaultHandler]
    /\ Fresh(MaxRuns)
    /\ NoTopicUse
    /\ NoConfUse

\* One source of one element that may raise, two handlers and two runs.
InitRebind ==
    /\ \E e \in {"stop", "ValueError"} : src = [s \in {1} |-> [len |-> 1, end |-> e]]
    /\ hcfg = [h \in {1, 2} |-> DefaultHandler]
    /\ Fresh(MaxRuns)
    /\ NoTopicUse
    /\ NoConfUse

\* One source of one element that may raise an error or a KeyboardInterrupt,
\* and one handler that may raise a KeyboardInterrupt.
InitExit ==
    /\ \E e \in {"stop", "ValueError", "KeyboardInterrupt"} :
          src = [s \in {1} |-> [len |-> 1, end |-> e]]
    /\ \E r \in {"val", "interrupt"} :
          hcfg = [h \in {1} |-> [DefaultHandler EXCEPT !.ret = r]]
    /\ Fresh(1)
    /\ NoTopicUse
    /\ NoConfUse

\* ------------------------------------------------------- registration
\* Conf.register_iterables((key, it)): add the pair to the source set.
register_iterables(k, s) == iterables \cup {<<k, s>>}

\* pub.subscribe(_handler, key): a listener is held once per topic.
Subscribe(b, k, h) ==
    IF \E i \in 1..Len(b[k]) : b[k][i] = h THEN b ELSE [b EXCEPT ![k] = Append(@, h)]

RECURSIVE SubscribeAll(_, _, _)
SubscribeAll(b, S, h) ==
    IF S = {} THEN b
    ELSE LET s == CHOOSE x \in S : TRUE
         IN  SubscribeAll(Subscribe(b, IdOf(s), h), S \ {s}, h)

\* @snap(*S, sink=...) applied to the user function of handler h.
Snap(h, S) ==
    /\ mainpc = "idle"
    /\ h \in DOMAIN hcfg
    /\ S \subseteq DOMAIN src
    /\ h \notin bound
    /\ bound' = bound \cup {h}
    /\ iterables' = iterables \cup {<<IdOf(s), s>> : s \in S}
    /\ subs' = SubscribeAll(subs, S, h)
    /\ UNCHANGED <<cfgVars, mainVars, queue, wk, logVars, starts, puts, topicVars, confVars>>

\* A direct Conf().register_iterables((str(id(it)), it)) by the caller.
Register(s) ==
    /\ mainpc = "idle"
    /\ s \in DOMAIN src
    /\ iterables' = register_iterables(IdOf(s), s)
    /\ UNCHANGED <<cfgVars, subs, bound, mainVars, queue, wk, logVars, starts, puts, topicVars, confVars>>

\* A direct Conf().register_iterables((key, it)) under a token of the
\* caller's choice.
RegisterAs(k, s) ==
    /\ mainpc = "idle"
    /\ s \in DOMAIN src
    /\ iterables' = register_iterables(k, s)
    /\ UNCHANGED <<cfgVars, subs, bound, mainVars, queue, wk, logVars, starts, puts, topicVars, confVars>>

\* A direct pub.subscribe(handler, key) by the caller, the handler taking
\* (msg, kwargs) as the dispatcher of snap does.
Listen(h, k) ==
    /\ mainpc = "idle"
    /\ h \in DOMAIN hcfg
    /\ subs' = Subscribe(subs, k, h)
    /\ UNCHANGED <<cfgVars, iterables, bound, mainVars, queue, wk, logVars, starts, puts, topicVars, confVars>>

\* (C37) A registration that gives the source a thread in the run under way.
RegisterLate_Spawn(s) ==
    /\ mainpc # "idle"
    /\ s \in DOMAIN src
    /\ iterables' = register_iterables(IdOf(s), s)
    /\ threads' = [threads EXCEPT ![run] = @ \cup {<<IdOf(s), s>>}]
    /\ UNCHANGED <<cfgVars, subs, bound, run, kw, mainpc, result, queue, wk, logVars, starts, puts, topicVars, confVars>>

\* Conf().register_iterables((str(id(it)), it)) called while start() is
\* running, from a handler or from another thread of the program.
RegisterLate(s) ==
    /\ mainpc # "idle"
    /\ s \in DOMAIN src
    /\ iterables' = register_iterables(IdOf(s), s)
    /\ UNCHANGED <<cfgVars, subs, bound, mainVars, queue, wk, logVars, starts, puts, topicVars, confVars>>

\* ------------------------------------------------------------ Conf.start
ThreadsOf(r) == {<<r, p[1], p[2]>> : p \in threads[r]}
Alive(w) == wk[w].pc \notin {"none", "new", "dead"}

\* (C3) A start() that builds no thread for a source without elements.
Start_SkipEmpty(k) ==
    /\ mainpc = "idle"
    /\ budget > 0
    /\ budget' = budget - 1
    /\ run' = run + 1
    /\ kw' = [kw EXCEPT ![run + 1] = k]
    /\ threads' = [threads EXCEPT ![run + 1] = {p \in iterables : src[p[2]].len > 0}]
    /\ wk' = [w \in Workers |->
                IF /\ RunOf(w) = run + 1
                   /\ <<KeyOf(w), SourceOf(w)>> \in iterables
                   /\ src[SourceOf(w)].len > 0
                THEN [IdleWorker EXCEPT !.pc = "new"] ELSE wk[w]]
    /\ mainpc' = "spawn"
    /\ UNCHANGED <<src, hcfg, regVars, result, queue, logVars, starts, puts, topicVars, confVars>>

\* start(**k): build the queue and the thread list from the source set.
\* (C39) A start() that begins with an empty bus.
Start_ClearBus(k) ==
    /\ mainpc = "idle"
    /\ budget > 0
    /\ budget' = budget - 1
    /\ run' = run + 1
    /\ kw' = [kw EXCEPT ![run + 1] = k]
    /\ threads' = [threads EXCEPT ![run + 1] = iterables]
    /\ wk' = [w \in Workers |->
                IF RunOf(w) = run + 1 /\ <<KeyOf(w), SourceOf(w)>> \in iterables
                THEN [IdleWorker EXCEPT !.pc = "new"] ELSE wk[w]]
    /\ mainpc' = "spawn"
    /\ subs' = [key \in Keys |-> <<>>]
    /\ UNCHANGED <<src, hcfg, iterables, bound, result, queue, logVars, starts, puts, topicVars, confVars>>

Start(k) ==
    /\ mainpc = "idle"
    /\ budget > 0
    /\ budget' = budget - 1
    /\ run' = run + 1
    /\ kw' = [kw EXCEPT ![run + 1] = k]
    /\ threads' = [threads EXCEPT ![run + 1] = iterables]
    /\ wk' = [w \in Workers |->
                IF RunOf(w) = run + 1 /\ <<KeyOf(w), SourceOf(w)>> \in iterables
                THEN [IdleWorker EXCEPT !.pc = "new"] ELSE wk[w]]
    /\ mainpc' = "spawn"
    /\ UNCHANGED <<src, hcfg, regVars, result, queue, logVars, starts, puts, topicVars, confVars>>

\* (C24) A start() that runs one thread per handler bound to the source.
Spawn_PerListener(w) ==
    /\ mainpc = "spawn"
    /\ w \in ThreadsOf(run)
    /\ wk[w].pc = "new"
    /\ wk' = [wk EXCEPT ![w].pc = "pull"]
    /\ starts' = [starts EXCEPT ![w] = @ + Len(subs[KeyOf(w)])]
    /\ UNCHANGED <<cfgVars, regVars, mainVars, queue, logVars, puts, topicVars, confVars>>

\* for t in threads: t.start()
Spawn(w) ==
    /\ mainpc = "spawn"
    /\ w \in ThreadsOf(run)
    /\ wk[w].pc = "new"
    /\ wk' = [wk EXCEPT ![w].pc = "pull"]
    /\ starts' = [starts EXCEPT ![w] = @ + 1]
    /\ UNCHANGED <<cfgVars, regVars, mainVars, queue, logVars, puts, topicVars, confVars>>

SpawnDone ==
    /\ mainpc = "spawn"
    /\ \A w \in ThreadsOf(run) : wk[w].pc # "new"
    /\ mainpc' = "check"
    /\ UNCHANGED <<cfgVars, regVars, run, kw, threads, result, queue, wk, logVars, starts, puts, topicVars, confVars>>

\* (C4) An end of start() that leaves the source set as it is.
Finish_KeepSources(how, e, intr) ==
    /\ result' = [result EXCEPT ![run] = [how |-> how, exc |-> e, intr |-> intr]]
    /\ iterables' = iterables
    /\ mainpc' = "idle"

\* The end of start(): the finally clause resets the source set.
Finish(how, e, intr) ==
    /\ result' = [result EXCEPT ![run] = [how |-> how, exc |-> e, intr |-> intr]]
    /\ iterables' = {}
    /\ mainpc' = "idle"

\* while any(t.is_alive() for t in threads)
Check ==
    /\ mainpc = "check"
    /\ IF \E w \in ThreadsOf(run) : Alive(w)
       THEN /\ mainpc' = "get"
            /\ UNCHANGED <<iterables, result>>
       ELSE Finish("returned", None, FALSE)
    /\ UNCHANGED <<cfgVars, subs, bound, run, kw, threads, queue, wk, logVars, starts, puts, topicVars, confVars>>

\* (C40) A start() that raises whatever value it gets from the queue.
Get_ReRaise ==
    /\ mainpc = "get"
    /\ queue[run] # <<>>
    /\ queue' = [queue EXCEPT ![run] = <<>>]
    /\ LET v == Head(queue[run])
       IN  IF v.kind = "None"
           THEN /\ mainpc' = "check"
                /\ UNCHANGED <<iterables, result>>
           ELSE Finish("raised", v, FALSE)
    /\ UNCHANGED <<cfgVars, subs, bound, run, kw, threads, wk, logVars, starts, puts, topicVars, confVars>>

\* (C36) A start() that stops the threads of the run before it raises.
Get_StopAll ==
    /\ mainpc = "get"
    /\ queue[run] # <<>>
    /\ queue' = [queue EXCEPT ![run] = <<>>]
    /\ LET v == Head(queue[run])
       IN  IF v.kind = "None"
           THEN /\ mainpc' = "check"
                /\ UNCHANGED <<iterables, result, wk>>
           ELSE /\ wk' = [w \in Workers |->
                            IF w \in ThreadsOf(run) THEN [wk[w] EXCEPT !.pc = "dead"]
                            ELSE wk[w]]
                /\ IF v.kind = "KeyboardInterrupt"
                   THEN Finish("SystemExit", None, FALSE)
                   ELSE Finish("raised", v, FALSE)
    /\ UNCHANGED <<cfgVars, subs, bound, run, kw, threads, logVars, starts, puts, topicVars, confVars>>

\* if exception := queue.get(): raise exception
\* A KeyboardInterrupt raised here is caught by the except clause: exit().
Get ==
    /\ mainpc = "get"
    /\ queue[run] # <<>>
    /\ queue' = [queue EXCEPT ![run] = <<>>]
    /\ LET v == Head(queue[run])
       IN  IF v.kind = "None"
           THEN /\ mainpc' = "check"
                /\ UNCHANGED <<iterables, result>>
           ELSE IF v.kind = "KeyboardInterrupt"
           THEN Finish("SystemExit", None, FALSE)
           ELSE Finish("raised", v, FALSE)
    /\ UNCHANGED <<cfgVars, subs, bound, run, kw, threads, wk, logVars, starts, puts, topicVars, confVars>>

\* (C10) A start() that lets the user's KeyboardInterrupt through.
Interrupt_Propagate ==
    /\ mainpc \in {"check", "get"}
    /\ Finish("raised", [kind |-> "KeyboardInterrupt", by |-> NoWorker, at |-> "user"], TRUE)
    /\ UNCHANGED <<cfgVars, subs, bound, run, kw, threads, queue, wk, logVars, starts, puts, topicVars, confVars>>

\* Ctrl-C delivered to the main thread while it waits: except
\* KeyboardInterrupt: exit(), which raises SystemExit.
Interrupt ==
    /\ mainpc \in {"check", "get"}
    /\ Finish("SystemExit", None, TRUE)
    /\ UNCHANGED <<cfgVars, subs, bound, run, kw, threads, queue, wk, logVars, starts, puts, topicVars, confVars>>

\* ------------------------------------------- Conf.distribute_messages
Listeners(w) == subs[IdOf(SourceOf(w))]
CurrentMsg(w) == Element(SourceOf(w), wk[w].pos)
CurrentHandler(w) == Listeners(w)[wk[w].hi]
Exc(kind, w, at) == [kind |-> kind, by |-> w, at |-> at]

\* (C1) A worker that swallows what it caught and only signals completion.
Caught_Swallow(w, e) == [wk[w] EXCEPT !.pc = "putnone", !.out = <<>>,
                                      !.hi = 0, !.vi = 0, !.si = 0]

\* The except clause: the worker holds the exception it caught.
Caught(w, e) == [wk[w] EXCEPT !.pc = "putexc", !.exc = e, !.out = <<>>,
                              !.hi = 0, !.vi = 0, !.si = 0]

\* (C25) A bus that calls only the first listener of a topic.
AfterListener_FirstOnly(w) ==
    [wk[w] EXCEPT !.pc = "pull", !.hi = 0, !.out = <<>>, !.vi = 0, !.si = 0]

\* A listener has returned: the bus calls the next one, or sendMessage
\* returns and the worker is back at the head of its for loop.
AfterListener(w) ==
    IF wk[w].hi < Len(Listeners(w))
    THEN [wk[w] EXCEPT !.pc = "call", !.hi = @ + 1, !.out = <<>>, !.vi = 0, !.si = 0]
    ELSE [wk[w] EXCEPT !.pc = "pull", !.hi = 0, !.out = <<>>, !.vi = 0, !.si = 0]

\* (C5) A worker that drops the first element it pulls.
Pull_DropFirst(w) ==
    /\ wk[w].pc = "pull"
    /\ LET sh == src[SourceOf(w)]
       IN  IF wk[w].pos < sh.len
           THEN wk' = [wk EXCEPT ![w] =
                         IF Listeners(w) = <<>> \/ wk[w].pos = 0
                         THEN [@ EXCEPT !.pos = @ + 1]
                         ELSE [@ EXCEPT !.pos = @ + 1, !.pc = "call", !.hi = 1]]
           ELSE /\ sh.end # "forever"
                /\ wk' = [wk EXCEPT ![w] =
                            IF sh.end = "stop"
                            THEN [@ EXCEPT !.pc = "putnone"]
                            ELSE Caught(w, Exc(sh.end, w, "source"))]
    /\ UNCHANGED <<cfgVars, regVars, mainVars, queue, logVars, starts, puts, topicVars, confVars>>

\* for el in it: the worker asks its source for the next element and, when
\* there is one, publishes it under str(id(it)).
Pull(w) ==
    /\ wk[w].pc = "pull"
    /\ LET sh == src[SourceOf(w)]
       IN  IF wk[w].pos < sh.len
           THEN wk' = [wk EXCEPT ![w] =
                         IF Listeners(w) = <<>>
                         THEN [@ EXCEPT !.pos = @ + 1]
                         ELSE [@ EXCEPT !.pos = @ + 1, !.pc = "call", !.hi = 1]]
           ELSE /\ sh.end # "forever"
                /\ wk' = [wk EXCEPT ![w] =
                            IF sh.end = "stop"
                            THEN [@ EXCEPT !.pc = "putnone"]
                            ELSE Caught(w, Exc(sh.end, w, "source"))]
    /\ UNCHANGED <<cfgVars, regVars, mainVars, queue, logVars, starts, puts, topicVars, confVars>>

\* (C6) A dispatcher that returns to the worker before routing the output.
Call_NoWait(w) ==
    /\ wk[w].pc = "call"
    /\ LET h == CurrentHandler(w)
           c == _handler(hcfg[h], CurrentMsg(w), kw[RunOf(w)])
       IN  /\ calls' = [calls EXCEPT ![w] = Append(@,
                          [h |-> h, msg |-> CurrentMsg(w),
                           args |-> c.args, kwargs |-> c.kwargs])]
           /\ wk' = [wk EXCEPT ![w] =
                 IF ~CallBinds(hcfg[h], c) THEN Caught(w, Exc("TypeError", w, "handler"))
                 ELSE IF hcfg[h].ret \in Raising
                 THEN Caught(w, Exc(Thrown(hcfg[h]), w, "handler"))
                 ELSE AfterListener(w)]
    /\ UNCHANGED <<cfgVars, regVars, mainVars, queue, writes, starts, puts, topicVars, confVars>>

\* (C27) A dispatcher that notes what the user function raised and lets the
\* worker go on with the next listener or element.
Call_GoOn(w) ==
    /\ wk[w].pc = "call"
    /\ LET h == CurrentHandler(w)
           c == _handler(hcfg[h], CurrentMsg(w), kw[RunOf(w)])
           vals == _handle_generator_or_function(Returned(hcfg[h], CurrentMsg(w)))
       IN  /\ calls' = [calls EXCEPT ![w] = Append(@,
                          [h |-> h, msg |-> CurrentMsg(w),
                           args |-> c.args, kwargs |-> c.kwargs])]
           /\ wk' = [wk EXCEPT ![w] =
                 IF ~CallBinds(hcfg[h], c) THEN Caught(w, Exc("TypeError", w, "handler"))
                 ELSE IF hcfg[h].ret \in Raising
                 THEN [AfterListener(w) EXCEPT !.exc = Exc(Thrown(hcfg[h]), w, "handler")]
                 ELSE IF vals = <<>> \/ hcfg[h].sinks = <<>> THEN AfterListener(w)
                 ELSE [@ EXCEPT !.pc = "route", !.out = vals, !.vi = 1, !.si = 1]]
    /\ UNCHANGED <<cfgVars, regVars, mainVars, queue, writes, starts, puts, topicVars, confVars>>

\* (C38) A dispatcher that waits while another thread is inside the same
\* user function or routing its output.
Call_Locked(w) ==
    /\ wk[w].pc = "call"
    /\ \A v \in Workers \ {w} :
          ~(wk[v].pc = "route" /\ CurrentHandler(v) = CurrentHandler(w))
    /\ LET h == CurrentHandler(w)
           c == _handler(hcfg[h], CurrentMsg(w), kw[RunOf(w)])
           vals == _handle_generator_or_function(Returned(hcfg[h], CurrentMsg(w)))
       IN  /\ calls' = [calls EXCEPT ![w] = Append(@,
                          [h |-> h, msg |-> CurrentMsg(w),
                           args |-> c.args, kwargs |-> c.kwargs])]
           /\ wk' = [wk EXCEPT ![w] =
                 IF ~CallBinds(hcfg[h], c) THEN Caught(w, Exc("TypeError", w, "handler"))
                 ELSE IF hcfg[h].ret \in Raising
                 THEN Caught(w, Exc(Thrown(hcfg[h]), w, "handler"))
                 ELSE IF vals = <<>> \/ hcfg[h].sinks = <<>> THEN AfterListener(w)
                 ELSE [@ EXCEPT !.pc = "route", !.out = vals, !.vi = 1, !.si = 1]]
    /\ UNCHANGED <<cfgVars, regVars, mainVars, queue, writes, starts, puts, topicVars, confVars>>

\* _handler(msg, kwargs): call the user function as its parameters allow.
Call(w) ==
    /\ wk[w].pc = "call"
    /\ LET h == CurrentHandler(w)
           c == _handler(hcfg[h], CurrentMsg(w), kw[RunOf(w)])
           vals == _handle_generator_or_function(Returned(hcfg[h], CurrentMsg(w)))
       IN  /\ calls' = [calls EXCEPT ![w] = Append(@,
                          [h |-> h, msg |-> CurrentMsg(w),
                           args |-> c.args, kwargs |-> c.kwargs])]
           /\ wk' = [wk EXCEPT ![w] =
                 IF ~CallBinds(hcfg[h], c) THEN Caught(w, Exc("TypeError", w, "handler"))
                 ELSE IF hcfg[h].ret \in Raising
                 THEN Caught(w, Exc(Thrown(hcfg[h]), w, "handler"))
                 ELSE IF vals = <<>> \/ hcfg[h].sinks = <<>> THEN AfterListener(w)
                 ELSE [@ EXCEPT !.pc = "route", !.out = vals, !.vi = 1, !.si = 1]]
    /\ UNCHANGED <<cfgVars, regVars, mainVars, queue, writes, starts, puts, topicVars, confVars>>

\* One _sink_output(s, val) of the loops of _handle_generator_or_function.
Route(w) ==
    /\ wk[w].pc = "route"
    /\ LET h == CurrentHandler(w)
           sinks == hcfg[h].sinks
           o == _sink_output(sinks[wk[w].si], wk[w].out[wk[w].vi])
       IN  IF o.exc # "none"
           THEN /\ wk' = [wk EXCEPT ![w] = Caught(w, Exc(o.exc, w, "sink"))]
                /\ UNCHANGED writes
           ELSE /\ writes' = [writes EXCEPT ![w] = Append(@,
                                [h |-> h, msg |-> CurrentMsg(w), vi |-> wk[w].vi,
                                 sink |-> wk[w].si, kind |-> sinks[wk[w].si],
                                 form |-> o.form, key |-> o.key, val |-> o.val])]
                /\ wk' = [wk EXCEPT ![w] =
                      IF wk[w].si < Len(sinks) THEN [@ EXCEPT !.si = @ + 1]
                      ELSE IF wk[w].vi < Len(wk[w].out)
                      THEN [@ EXCEPT !.vi = @ + 1, !.si = 1]
                      ELSE AfterListener(w)]
    /\ UNCHANGED <<cfgVars, regVars, mainVars, queue, calls, starts, puts, topicVars, confVars>>

\* (C11) A put that does not wait for room: it replaces the value in the queue.
PutExc_Overwrite(w) ==
    /\ wk[w].pc = "putexc"
    /\ queue' = [queue EXCEPT ![RunOf(w)] = <<wk[w].exc>>]
    /\ puts' = [puts EXCEPT ![RunOf(w)] = Append(@, wk[w].exc)]
    /\ wk' = [wk EXCEPT ![w].pc = "putnone"]
    /\ UNCHANGED <<cfgVars, regVars, mainVars, logVars, starts, topicVars, confVars>>

\* except BaseException as e: queue.put(e)  (blocks while the queue is full)
PutExc(w) ==
    /\ wk[w].pc = "putexc"
    /\ queue[RunOf(w)] = <<>>
    /\ queue' = [queue EXCEPT ![RunOf(w)] = <<wk[w].exc>>]
    /\ puts' = [puts EXCEPT ![RunOf(w)] = Append(@, wk[w].exc)]
    /\ wk' = [wk EXCEPT ![w].pc = "putnone"]
    /\ UNCHANGED <<cfgVars, regVars, mainVars, logVars, starts, topicVars, confVars>>

\* finally: queue.put(None)
PutNone(w) ==
    /\ wk[w].pc = "putnone"
    /\ queue[RunOf(w)] = <<>>
    /\ queue' = [queue EXCEPT ![RunOf(w)] = <<None>>]
    /\ wk' = [wk EXCEPT ![w].pc = "exit"]
    /\ UNCHANGED <<cfgVars, regVars, mainVars, logVars, starts, puts, topicVars, confVars>>

\* The thread function returns after its last log line: the thread is dead.
Exit(w) ==
    /\ wk[w].pc = "exit"
    /\ wk' = [wk EXCEPT ![w].pc = "dead"]
    /\ UNCHANGED <<cfgVars, regVars, mainVars, queue, logVars, starts, puts, topicVars, confVars>>

WorkerStep(w) ==
    \/ Pull(w)
    \/ Call(w)
    \/ Route(w)
    \/ PutExc(w)
    \/ PutNone(w)
    \/ Exit(w)

Next ==
    \/ \E h \in Handlers, S \in SUBSET Sources : Snap(h, S)
    \/ \E s \in Sources : Register(s)
    \/ \E k \in KwargSets : Start(k)
    \/ \E w \in Workers : Spawn(w)
    \/ SpawnDone
    \/ Check
    \/ Get
    \/ Interrupt
    \/ \E w \in Workers : WorkerStep(w)

Spec == Init /\ [][Next]_vars
SpecBind == InitBind /\ [][Next]_vars
SpecRuns == InitRuns /\ [][Next]_vars
SpecFan == InitFan /\ [][Next]_vars
SpecRebind == InitRebind /\ [][Next]_vars
SpecExit == InitExit /\ [][Next]_vars

\* Programs that bind with snap, also register sources while start() is
\* running, and are not interrupted by their user.
NextLate ==
    \/ \E h \in Handlers, S \in SUBSET Sources : Snap(h, S)
    \/ \E s \in Sources : RegisterLate(s)
    \/ \E k \in KwargSets : Start(k)
    \/ \E w \in Workers : Spawn(w)
    \/ SpawnDone
    \/ Check
    \/ Get
    \/ \E w \in Workers : WorkerStep(w)

SpecLate == InitLate /\ [][NextLate]_vars

\* Programs that also register sources and subscribe handlers directly,
\* under a token of their own.
NextToken ==
    \/ Next
    \/ \E s \in Sources : RegisterAs(Foreign, s)
    \/ \E h \in Handlers : Listen(h, Foreign)

SpecToken == InitToken /\ [][NextToken]_vars

TypeOK ==
    /\ mainpc \in {"idle", "spawn", "check", "get"}
    /\ run \in 0..MaxRuns
    /\ budget \in 0..MaxRuns - run
    /\ \A r \in Runs : Len(queue[r]) <= 1

\* ================================================================ Topic
MaxOffset == 3     \* the topic log holds the offsets 0..MaxOffset-1
MaxIters == 2      \* iterations created on one Topic
MaxErrors == 1     \* broker errors logged during one iteration
MaxNexts == 4      \* next(topic) calls made on one Topic

READ_FROM_START == -2
READ_FROM_END == -1

\* An optional integer: None, or the integer.
Nothing == <<>>
Some(n) == <<n>>
\* Python truth value of an optional integer: None and 0 are false.
Truthy(x) == x # Nothing /\ x[1] # 0
Max(a, b) == IF a >= b THEN a ELSE b

\* What the caller writes to iterate: iter(topic), topic[i], topic[a:b:c].
PlainIter == [kind |-> "iter", i |-> Nothing, start |-> Nothing,
              stop |-> Nothing, step |-> Nothing]
IntIndex(i) == [kind |-> "int", i |-> Some(i), start |-> Nothing,
                stop |-> Nothing, step |-> Nothing]
Slice(a, b, c) == [kind |-> "slice", i |-> Nothing, start |-> a,
                   stop |-> b, step |-> c]
OptOffsets == {Nothing} \cup {Some(n) : n \in 0..MaxOffset}
Starts == OptOffsets \cup {Some(-1)}
Steps == {Nothing, Some(1), Some(2)}
Exprs == {PlainIter} \cup {IntIndex(i) : i \in -1..MaxOffset - 1}
             \cup {Slice(a, b, c) : a \in Starts, b \in OptOffsets, c \in Steps}

\* start, step, stop = (i, None, i + 1 if i >= 0 else None) for an int,
\* (i.start, i.step, i.stop) for a slice; a plain iteration filters nothing.
Bounds(e) ==
    IF e.kind = "int"
    THEN [start |-> e.i, step |-> Nothing,
          stop |-> IF e.i[1] >= 0 THEN Some(e.i[1] + 1) ELSE Nothing]
    ELSE [start |-> e.start, step |-> e.step, stop |-> e.stop]

\* The body of the loop of Topic.__getitem__ for a message of offset o:
\* return, raise (max(0, None) is a TypeError), continue, or yield.
Select(e, o) ==
    LET b == Bounds(e)
    IN  IF e.kind = "iter" THEN "yield"
        ELSE IF Truthy(b.stop) /\ o >= b.stop[1] THEN "return"
        ELSE IF Truthy(b.step)
        THEN IF b.start = Nothing THEN "TypeError"
             ELSE IF (o - Max(0, b.start[1])) % b.step[1] # 0 THEN "continue"
             ELSE "yield"
        ELSE "yield"

\* What Consumer.poll returns: nothing, a message carrying an error, a message.
Empty == [kind |-> "empty", fatal |-> FALSE, retriable |-> FALSE, offset |-> Nothing]
Error(f, r) == [kind |-> "error", fatal |-> f, retriable |-> r, offset |-> Nothing]
Message(o) == [kind |-> "message", fatal |-> FALSE, retriable |-> FALSE, offset |-> Some(o)]
NoPoll == [kind |-> "none", fatal |-> FALSE, retriable |-> FALSE, offset |-> Nothing]
Errors == {Error(f, r) : f \in BOOLEAN, r \in BOOLEAN}

\* (C20) A poll loop that raises in strict mode only.
_consumer_handler_StrictOnly(m, raise_error) ==
    IF m.kind = "empty" THEN "continue"
    ELSE IF m.kind = "error"
    THEN IF raise_error THEN "raise" ELSE "log"
    ELSE "yield"

\* One turn of the loop of _consumer_handler on the poll result m.
_consumer_handler(m, raise_error) ==
    IF m.kind = "empty" THEN "continue"
    ELSE IF m.kind = "error"
    THEN IF raise_error \/ m.fatal \/ ~m.retriable THEN "raise" ELSE "log"
    ELSE "yield"

\* ------------------------------------------------- Topic: consuming
Iterations == 1..Len(iters)
\* A handle: assigned is what on_assign passed to c.assign, one offset per
\* partition; pos is the next offset read from partition 1, the partition
\* whose messages the iterations see, and from is where its reading began.
NewConsumer == [closed |-> FALSE, subscribed |-> FALSE, pos |-> 0,
                assigned |-> <<>>, from |-> 0, commits |-> 0]
\* A generator just created; after: how many earlier iterations were over.
NewIteration(e) == [expr |-> e, pc |-> "new", how |-> "none", err |-> "none",
                    h |-> 0, out |-> <<>>, last |-> NoPoll, logged |-> 0,
                    after |-> Cardinality({j \in Iterations : iters[j].pc = "ended"})]

\* The position a partition is read from: the broker resolves the two
\* logical offsets to the beginning and to the end of the log.
Resolve(o) ==
    IF o = READ_FROM_START THEN 0
    ELSE IF o = READ_FROM_END THEN MaxOffset
    ELSE o

\* (C29) An on_assign that leaves the first partition as it came.
on_assign_SkipFirst(ps) ==
    [k \in DOMAIN ps |->
        IF tcfg.offset # Nothing /\ k > 1 THEN tcfg.offset[1] ELSE ps[k]]

\* on_assign(c, ps): a configured starting offset replaces the offset of
\* every partition of ps; the result is what c.assign receives.
on_assign(ps) ==
    [k \in DOMAIN ps |-> IF tcfg.offset # Nothing THEN tcfg.offset[1] ELSE ps[k]]

\* The handle after subscribe: a first subscription is assigned the
\* partitions as the broker hands them; on a handle that is already
\* subscribed the partitions are either left alone or assigned again from
\* where they are.
Assigned(c) ==
    LET ps == IF c.subscribed THEN [env.partitions EXCEPT ![1] = c.pos]
              ELSE env.partitions
        a == on_assign(ps)
        again == [c EXCEPT !.subscribed = TRUE, !.assigned = a,
                           !.pos = Resolve(a[1]), !.from = Resolve(a[1])]
    IN  IF c.subscribed THEN {c, again} ELSE {again}

\* str.lower on the texts a conf value can have.
Lower(t) ==
    CASE t = "None" -> "none"
      [] t = "True" -> "true"
      [] t = "False" -> "false"
      [] t = "FALSE" -> "false"
      [] OTHER -> t

\* manual_commit = pipe(conf.get('enable.auto.commit'), str, str.lower) == 'false'
manual_commit == Lower(tcfg.auto_commit.text) = "false"

\* (C21) A poll loop that commits after every message, whatever the policy.
AfterYield_Always(cs, h) == [cs EXCEPT ![h].commits = @ + 1]

\* The poll loop resumed after its yield:
\* if manual_commit and commit_each_message: c.commit()
AfterYield(cs, h) ==
    IF manual_commit /\ tcfg.commit_each_message
    THEN [cs EXCEPT ![h].commits = @ + 1]
    ELSE cs

\* (C14) A context exit that leaves the handle open.
Close_Leak(cs, h) == cs

\* finally: self._consumer.close()
Close(cs, h) == [cs EXCEPT ![h].closed = TRUE]

\* The iteration is over: how it ended and with what exception.
Over(it, how, err) == [it EXCEPT !.pc = "ended", !.how = how, !.err = err]

\* The caller evaluates iter(topic), topic[i] or topic[a:b:c]: a generator
\* is created, none of its code has run.
NewIter(e) ==
    /\ Len(iters) < env.iters
    /\ e \in env.exprs
    /\ iters' = Append(iters, NewIteration(e))
    /\ UNCHANGED <<engineVars, confVars, tcfg, env, ctxVars, consumers, _consumer, produceVars>>

\* The first next(): _get_consumer keeps the handle the Topic already has or
\* creates one, then consume() subscribes on it. subscribe on a closed handle
\* raises RuntimeError, and the finally clause closes the handle again.
Enter(i) ==
    /\ i \in Iterations
    /\ iters[i].pc = "new"
    /\ LET cs == IF _consumer = 0 THEN Append(consumers, NewConsumer) ELSE consumers
           h == IF _consumer = 0 THEN Len(cs) ELSE _consumer
       IN  /\ _consumer' = h
           /\ IF cs[h].closed
              THEN /\ consumers' = Close(cs, h)
                   /\ iters' = [iters EXCEPT ![i] =
                                  Over([@ EXCEPT !.h = h], "raised", "RuntimeError")]
              ELSE \E c \in Assigned(cs[h]) :
                   /\ consumers' = [cs EXCEPT ![h] = c]
                   /\ iters' = [iters EXCEPT ![i].pc = "polling", ![i].h = h]
    /\ UNCHANGED <<engineVars, confVars, tcfg, env, ctxVars, produceVars>>

\* What the broker can hand to a poll of handle c.
PollResults(c) ==
    {Empty} \cup (IF env.errors THEN Errors ELSE {})
            \cup (IF c.pos < MaxOffset THEN {Message(c.pos)} ELSE {})

\* One c.poll(poll_timeout) and the rest of that turn of the loop, up to the
\* next poll, the next yield or the end of the generator.
Poll(i, m) ==
    /\ i \in Iterations
    /\ iters[i].pc = "polling"
    /\ LET h == iters[i].h
           c == consumers[h]
           turn == _consumer_handler(m, tcfg.raise_error)
           o == m.offset[1]
           sel == Select(iters[i].expr, o)
       IN  IF c.closed
           THEN /\ m = Empty
                /\ consumers' = Close(consumers, h)
                /\ iters' = [iters EXCEPT ![i] = Over(@, "raised", "RuntimeError")]
           ELSE /\ m \in PollResults(c)
                /\ turn = "log" => iters[i].logged < MaxErrors
                /\ CASE turn = "continue" ->
                          /\ iters' = [iters EXCEPT ![i].last = m]
                          /\ UNCHANGED consumers
                     [] turn = "log" ->
                          /\ iters' = [iters EXCEPT ![i].last = m, ![i].logged = @ + 1]
                          /\ UNCHANGED consumers
                     [] turn = "raise" ->
                          /\ iters' = [iters EXCEPT ![i] =
                                         Over([@ EXCEPT !.last = m], "raised", "KafkaException")]
                          /\ consumers' = Close(consumers, h)
                     [] turn = "yield" /\ sel = "yield" ->
                          /\ iters' = [iters EXCEPT ![i].last = m, ![i].pc = "yielded",
                                                    ![i].out = Append(@, o)]
                          /\ consumers' = [consumers EXCEPT ![h].pos = @ + 1]
                     [] turn = "yield" /\ sel = "continue" ->
                          /\ iters' = [iters EXCEPT ![i].last = m]
                          /\ consumers' = AfterYield([consumers EXCEPT ![h].pos = @ + 1], h)
                     [] turn = "yield" /\ sel = "return" ->
                          /\ iters' = [iters EXCEPT ![i] =
                                         Over([@ EXCEPT !.last = m], "returned", "none")]
                          /\ consumers' = Close([consumers EXCEPT ![h].pos = @ + 1], h)
                     [] turn = "yield" /\ sel = "TypeError" ->
                          /\ iters' = [iters EXCEPT ![i] =
                                         Over([@ EXCEPT !.last = m], "raised", "TypeError")]
                          /\ consumers' = Close([consumers EXCEPT ![h].pos = @ + 1], h)
    /\ UNCHANGED <<engineVars, confVars, tcfg, env, ctxVars, _consumer, produceVars>>

\* The caller asks for the next message: the generator goes on after its
\* yield, and so does the poll loop, up to its next poll. A commit on a
\* closed handle raises RuntimeError.
Resume(i) ==
    /\ i \in Iterations
    /\ iters[i].pc = "yielded"
    /\ LET h == iters[i].h
       IN  IF consumers[h].closed /\ AfterYield(consumers, h) # consumers
           THEN /\ iters' = [iters EXCEPT ![i] = Over(@, "raised", "RuntimeError")]
                /\ consumers' = Close(consumers, h)
           ELSE /\ iters' = [iters EXCEPT ![i].pc = "polling"]
                /\ consumers' = AfterYield(consumers, h)
    /\ UNCHANGED <<engineVars, confVars, tcfg, env, ctxVars, _consumer, produceVars>>

\* (C35) A context exit that commits the message the caller was given last.
CloseIter_Commit(i) ==
    /\ i \in Iterations
    /\ iters[i].pc \in {"new", "yielded"}
    /\ iters' = [iters EXCEPT ![i] = Over(@, "closed", "none")]
    /\ consumers' = IF iters[i].pc = "new" THEN consumers
                    ELSE Close(AfterYield(consumers, iters[i].h), iters[i].h)
    /\ UNCHANGED <<engineVars, confVars, tcfg, env, ctxVars, _consumer, produceVars>>

\* The caller closes or drops the generator: one that never started just
\* ends, one suspended at its yield leaves the with block, whose finally
\* clause closes the handle.
CloseIter(i) ==
    /\ i \in Iterations
    /\ iters[i].pc \in {"new", "yielded"}
    /\ iters' = [iters EXCEPT ![i] = Over(@, "closed", "none")]
    /\ consumers' = IF iters[i].pc = "new" THEN consumers
                    ELSE Close(consumers, iters[i].h)
    /\ UNCHANGED <<engineVars, confVars, tcfg, env, ctxVars, _consumer, produceVars>>

NextConsume ==
    \/ \E e \in Exprs : NewIter(e)
    \/ \E i \in 1..MaxIters : Enter(i)
    \/ \E i \in 1..MaxIters : \E m \in {Empty} \cup Errors \cup {Message(o) : o \in 0..MaxOffset - 1} : Poll(i, m)
    \/ \E i \in 1..MaxIters : Resume(i)
    \/ \E i \in 1..MaxIters : CloseIter(i)

\* A program that only uses its Topic: no source, no handler, no start().
NoEngineUse ==
    /\ src = <<>>
    /\ hcfg = <<>>
    /\ Fresh(0)

\* Programs that run one iteration of every form, on a Topic that starts at
\* the beginning or at offset 1, with a broker that reports errors.
InitSlice ==
    /\ tcfg \in [offset : {Some(READ_FROM_START), Some(1)}, raise_error : BOOLEAN,
                 dry : {FALSE}, codec : {FALSE}, flush_timeout : {"-1.0"},
                 auto_commit : {PyNone}, commit_each_message : {FALSE}]
    /\ env = [exprs |-> Exprs, iters |-> 1, sends |-> 0, errors |-> TRUE,
              partitions |-> <<0>>]
    /\ NewTopic
    /\ NoEngineUse
    /\ NoConfUse

\* Programs that run several iterations of one Topic that starts at the
\* beginning: plain iterations, topic[0] and topic[:2].
InitIters ==
    /\ tcfg = [DefaultTopic EXCEPT !.offset = Some(READ_FROM_START)]
    /\ env = [exprs |-> {PlainIter, IntIndex(0), Slice(Nothing, Some(2), Nothing)},
              iters |-> MaxIters, sends |-> 0, errors |-> FALSE, partitions |-> <<0>>]
    /\ NewTopic
    /\ NoEngineUse
    /\ NoConfUse

\* Programs that run one iteration under every commit policy and starting
\* offset, on a topic of two partitions.
AutoCommits == {PyNone, PyBool(TRUE), PyBool(FALSE), PyStr("false"), PyStr("FALSE")}
StartingOffsets == {Nothing, Some(READ_FROM_START), Some(READ_FROM_END), Some(0), Some(1)}

InitPolicy ==
    /\ tcfg \in [offset : StartingOffsets, raise_error : {FALSE},
                 dry : {FALSE}, codec : {FALSE}, flush_timeout : {"-1.0"},
                 auto_commit : AutoCommits, commit_each_message : BOOLEAN]
    /\ \E ps \in {<<0, 1>>, <<1, 0>>} :
          env = [exprs |-> {PlainIter, Slice(Some(0), Some(MaxOffset), Some(2))},
                 iters |-> 1, sends |-> 0, errors |-> FALSE, partitions |-> ps]
    /\ NewTopic
    /\ NoEngineUse
    /\ NoConfUse

\* Programs that run one iteration under a commit policy, with a stop the
\* log reaches and a broker that reports errors.
InitCommit ==
    /\ tcfg \in [offset : {Some(READ_FROM_START), Some(1)}, raise_error : {FALSE},
                 dry : {FALSE}, codec : {FALSE}, flush_timeout : {"-1.0"},
                 auto_commit : {PyNone, PyBool(FALSE), PyStr("false")},
                 commit_each_message : BOOLEAN]
    /\ env = [exprs |-> {PlainIter, IntIndex(1), Slice(Nothing, Some(2), Nothing),
                         Slice(Some(0), Some(2), Some(2))},
              iters |-> 1, sends |-> 0, errors |-> TRUE, partitions |-> <<0>>]
    /\ NewTopic
    /\ NoEngineUse
    /\ NoConfUse

SpecSlice == InitSlice /\ [][NextConsume]_vars
SpecCommit == InitCommit /\ [][NextConsume]_vars
SpecPolicy == InitPolicy /\ [][NextConsume]_vars
SpecIters == InitIters /\ [][NextConsume]_vars

\* (C33) A __next__ that starts a new iteration at every call.
__next___Fresh ==
    /\ Len(nexts) < MaxNexts
    /\ _consumer_ctx # 0 => iters[_consumer_ctx].pc \in {"yielded", "ended"}
    /\ LET i == Len(iters) + 1
           cs == IF _consumer = 0 THEN Append(consumers, NewConsumer) ELSE consumers
           h == IF _consumer = 0 THEN Len(cs) ELSE _consumer
       IN  /\ _consumer_ctx' = i
           /\ _consumer' = h
           /\ nexts' = Append(nexts, [it |-> i, how |-> "started"])
           /\ IF cs[h].closed
              THEN /\ consumers' = Close(cs, h)
                   /\ iters' = Append(iters, Over([NewIteration(PlainIter) EXCEPT !.h = h],
                                                  "raised", "RuntimeError"))
              ELSE \E c \in Assigned(cs[h]) :
                   /\ consumers' = [cs EXCEPT ![h] = c]
                   /\ iters' = Append(iters, [NewIteration(PlainIter) EXCEPT
                                                !.pc = "polling", !.h = h])
    /\ UNCHANGED <<engineVars, confVars, tcfg, env, produceVars>>

\* next(topic): self._consumer_ctx = self._consumer_ctx or self.__iter__(),
\* then next(self._consumer_ctx). The first call creates the generator and
\* runs it up to its first poll; a later call resumes it after its yield,
\* up to the next poll; on a generator that is over it raises StopIteration.
\* The caller makes a call when the one before has returned or raised.
__next__ ==
    /\ Len(nexts) < MaxNexts
    /\ IF _consumer_ctx = 0
       THEN LET i == Len(iters) + 1
                cs == IF _consumer = 0 THEN Append(consumers, NewConsumer) ELSE consumers
                h == IF _consumer = 0 THEN Len(cs) ELSE _consumer
            IN  /\ _consumer_ctx' = i
                /\ _consumer' = h
                /\ nexts' = Append(nexts, [it |-> i, how |-> "started"])
                /\ IF cs[h].closed
                   THEN /\ consumers' = Close(cs, h)
                        /\ iters' = Append(iters,
                                       Over([NewIteration(PlainIter) EXCEPT !.h = h],
                                            "raised", "RuntimeError"))
                   ELSE \E c \in Assigned(cs[h]) :
                        /\ consumers' = [cs EXCEPT ![h] = c]
                        /\ iters' = Append(iters, [NewIteration(PlainIter) EXCEPT
                                                     !.pc = "polling", !.h = h])
       ELSE LET i == _consumer_ctx
                h == iters[i].h
            IN  /\ iters[i].pc \in {"yielded", "ended"}
                /\ UNCHANGED <<_consumer_ctx, _consumer>>
                /\ IF iters[i].pc = "ended"
                   THEN /\ nexts' = Append(nexts, [it |-> i, how |-> "StopIteration"])
                        /\ UNCHANGED <<iters, consumers>>
                   ELSE /\ nexts' = Append(nexts, [it |-> i, how |-> "resumed"])
                        /\ IF consumers[h].closed /\ AfterYield(consumers, h) # consumers
                           THEN /\ iters' = [iters EXCEPT ![i] =
                                               Over(@, "raised", "RuntimeError")]
                                /\ consumers' = Close(consumers, h)
                           ELSE /\ iters' = [iters EXCEPT ![i].pc = "polling"]
                                /\ consumers' = AfterYield(consumers, h)
    /\ UNCHANGED <<engineVars, confVars, tcfg, env, produceVars>>

\* Programs that read their Topic with next(topic) alone.
NextDemand ==
    \/ __next__
    \/ \E i \in 1..MaxIters : \E m \in {Empty} \cup Errors \cup {Message(o) : o \in 0..MaxOffset - 1} : Poll(i, m)

InitDemand ==
    /\ tcfg \in [offset : {Some(READ_FROM_START), Some(1)}, raise_error : BOOLEAN,
                 dry : {FALSE}, codec : {FALSE}, flush_timeout : {"-1.0"},
                 auto_commit : {PyNone, PyStr("false")}, commit_each_message : {TRUE}]
    /\ env = [exprs |-> {}, iters |-> 0, sends |-> 0, errors |-> TRUE,
              partitions |-> <<0>>]
    /\ NewTopic
    /\ NoEngineUse
    /\ NoConfUse

SpecDemand == InitDemand /\ [][NextDemand]_vars

\* ------------------------------------------------- Topic: producing
MaxSends == 2      \* produce calls made on one Topic

Vals == {"a", "b"}
PKeys == {"None", "k"}
\* codec.encode: the bytes of a value.
Encode(v) == IF v = "a" THEN "bytes(a)" ELSE "bytes(b)"

\* Calls on the Producer handle.
ProduceCall(key, value) == [op |-> "produce", key |-> key, value |-> value, timeout |-> "none"]
PollCall == [op |-> "poll", key |-> "none", value |-> "none", timeout |-> "poll_timeout"]
FlushCall(t) == [op |-> "flush", key |-> "none", value |-> "none", timeout |-> t]

\* (C18) A push function whose dry run skips produce but still polls.
_producer_handler_DryPolls(key, val) ==
    LET v == IF tcfg.codec THEN Encode(val) ELSE val
    IN  IF tcfg.dry
        THEN [calls |-> <<PollCall>>, warned |-> 1]
        ELSE [calls |-> <<ProduceCall(key, v), PollCall>>, warned |-> 0]

\* produce(key, val) of _producer_handler: the calls it makes on the handle
\* and the warnings it logs.
_producer_handler(key, val) ==
    LET v == IF tcfg.codec THEN Encode(val) ELSE val
    IN  IF tcfg.dry
        THEN [calls |-> <<>>, warned |-> 1]
        ELSE [calls |-> <<ProduceCall(key, v), PollCall>>, warned |-> 0]

\* What _get_producer().__enter__() returns: the value the context manager
\* yields, i.e. the push function, not the context manager.
Entered == "function"
HasExit(ctx) == ctx = "contextmanager"

\* (C17) A __call__ that enters a new producer context at every call.
Produce_AlwaysEnter(val, key) ==
    /\ deleted = "no"
    /\ Len(tcalls) < env.sends
    /\ tcalls' = Append(tcalls, <<val, key>>)
    /\ producers' = producers + 1
    /\ _producer' = producers + 1
    /\ pushfns' = pushfns + 1
    /\ _producer_ctx' = Entered
    /\ pushes' = Append(pushes, <<key, val>>)
    /\ plog' = plog \o _producer_handler(key, val).calls
    /\ warnings' = warnings + _producer_handler(key, val).warned
    /\ UNCHANGED <<engineVars, confVars, tcfg, env, ctxVars, consumeVars, deleted>>

\* Topic.__call__(val, key): without a context yet, _get_producer keeps the
\* Producer the Topic has or creates one and builds the push function; the
\* context manager itself is not kept. Then the push function is called.
Produce(val, key) ==
    /\ deleted = "no"
    /\ Len(tcalls) < env.sends
    /\ tcalls' = Append(tcalls, <<val, key>>)
    /\ IF _producer_ctx = "None"
       THEN /\ producers' = IF _producer = 0 THEN producers + 1 ELSE producers
            /\ _producer' = IF _producer = 0 THEN producers + 1 ELSE _producer
            /\ pushfns' = pushfns + 1
            /\ _producer_ctx' = Entered
       ELSE UNCHANGED <<producers, _producer, pushfns, _producer_ctx>>
    /\ pushes' = Append(pushes, <<key, val>>)
    /\ plog' = plog \o _producer_handler(key, val).calls
    /\ warnings' = warnings + _producer_handler(key, val).warned
    /\ UNCHANGED <<engineVars, confVars, tcfg, env, ctxVars, consumeVars, deleted>>

\* Topic.__del__: if self._producer_ctx: self._producer_ctx.__exit__(None,
\* None, None). The exit of the producer context flushes; an object without
\* __exit__ raises AttributeError, which the interpreter ignores.
Delete ==
    /\ deleted = "no"
    /\ IF _producer_ctx = "None"
       THEN /\ deleted' = "done"
            /\ UNCHANGED plog
       ELSE IF HasExit(_producer_ctx)
       THEN /\ deleted' = "done"
            /\ plog' = Append(plog, FlushCall(tcfg.flush_timeout))
       ELSE /\ deleted' = "AttributeError"
            /\ UNCHANGED plog
    /\ UNCHANGED <<engineVars, confVars, tcfg, env, ctxVars, consumeVars, producers, _producer,
                   _producer_ctx, pushfns, tcalls, pushes, warnings>>

NextProduce ==
    \/ \E v \in Vals, k \in PKeys : Produce(v, k)
    \/ Delete

\* Programs that produce to their Topic and then discard it.
InitProduce ==
    /\ tcfg \in [offset : {Nothing}, raise_error : {FALSE}, dry : BOOLEAN,
                 codec : BOOLEAN, flush_timeout : {"-1.0", "0.01"},
                 auto_commit : {PyNone}, commit_each_message : {FALSE}]
    /\ env = [exprs |-> {}, iters |-> 0, sends |-> MaxSends, errors |-> FALSE,
              partitions |-> <<0>>]
    /\ NewTopic
    /\ NoEngineUse
    /\ NoConfUse

SpecProduce == InitProduce /\ [][NextProduce]_vars

\* ====================================================== the Registry
MaxCalls == 3      \* Conf(...), Topic(...) and create_topic calls of a program

ConfKeys == {"group.id", "bootstrap.servers"}
ConfVals == {"a", "b"}
\* Every mapping from some of the keys to values.
Overrides == UNION {[K -> ConfVals] : K \in SUBSET ConfKeys}
EmptyDict == [k \in {} |-> "a"]

\* (C22) A merge in which the value already there wins.
Merge_LeftBiased(a, b) ==
    [k \in DOMAIN a \cup DOMAIN b |-> IF k \in DOMAIN a THEN a[k] ELSE b[k]]

\* {**a, **b}: a new dict, the keys of both, b's value where both have one.
Merge(a, b) ==
    [k \in DOMAIN a \cup DOMAIN b |-> IF k \in DOMAIN b THEN b[k] ELSE a[k]]

\* Singleton.__call__ on Conf with the override o: a first call constructs
\* the object (__init__: self.conf = {}, then __update__(o)); every call then
\* runs __update__(o), which binds self.conf to a new dict, and returns the
\* object. The result is the Registry after the call.
SingletonCall(o) ==
    LET first == _instances = 0
        d1 == IF first THEN dicts \o <<EmptyDict, Merge(EmptyDict, o)>> ELSE dicts
        c1 == IF first THEN Len(d1) ELSE conf
    IN  [inst |-> IF first THEN made + 1 ELSE _instances,
         made |-> IF first THEN made + 1 ELSE made,
         dicts |-> Append(d1, Merge(d1[c1], o)),
         conf |-> Len(d1) + 1]

\* Conf(o) called by the program.
Configure(o) ==
    /\ todo > 0
    /\ todo' = todo - 1
    /\ LET r == SingletonCall(o)
       IN  /\ _instances' = r.inst
           /\ made' = r.made
           /\ dicts' = r.dicts
           /\ conf' = r.conf
           /\ got' = got \cup {r.inst}
    /\ hist' = Append(hist, o)
    /\ UNCHANGED <<engineVars, topicVars, topics, exists, admin>>

\* (C23) A Topic construction that hands its overrides to the Registry.
Construct_WriteBack(o) ==
    /\ todo > 0
    /\ todo' = todo - 1
    /\ LET r == SingletonCall(o)
       IN  /\ _instances' = r.inst
           /\ made' = r.made
           /\ conf' = r.conf
           /\ got' = got \cup {r.inst}
           /\ dicts' = Append(r.dicts, Merge(r.dicts[r.conf], o))
           /\ topics' = Append(topics, [conf |-> Len(r.dicts) + 1, over |-> o,
                                        base |-> IF conf = 0 THEN EmptyDict ELSE dicts[conf],
                                        reg |-> r.dicts[r.conf]])
    /\ UNCHANGED <<engineVars, topicVars, hist, exists, admin>>

\* Topic(name, o): c = Conf(); self.conf = {**c.conf, **conf}. base and reg
\* keep what the Registry config was before and after the construction.
Construct(o) ==
    /\ todo > 0
    /\ todo' = todo - 1
    /\ LET r == SingletonCall(EmptyDict)
       IN  /\ _instances' = r.inst
           /\ made' = r.made
           /\ conf' = r.conf
           /\ got' = got \cup {r.inst}
           /\ dicts' = Append(r.dicts, Merge(r.dicts[r.conf], o))
           /\ topics' = Append(topics, [conf |-> Len(r.dicts) + 1, over |-> o,
                                        base |-> IF conf = 0 THEN EmptyDict ELSE dicts[conf],
                                        reg |-> r.dicts[r.conf]])
    /\ UNCHANGED <<engineVars, topicVars, hist, exists, admin>>

\* What the future of admin.create_topics gives: the topic was created, or
\* a KafkaException whose text names the error, or another exception.
Answers ==
    IF exists THEN {"TOPIC_ALREADY_EXISTS"}
    ELSE {"created", "INVALID_REPLICATION_FACTOR", "TimeoutError"}
IsKafkaException(a) == a \in {"TOPIC_ALREADY_EXISTS", "INVALID_REPLICATION_FACTOR"}

\* (C26) A create_topic that raises whatever the broker refuses.
create_topic_RaiseAll(a) ==
    IF a = "created" THEN [log |-> "debug", result |-> "returned"]
    ELSE IF IsKafkaException(a) THEN [log |-> "error", result |-> "raised"]
    ELSE [log |-> "none", result |-> "raised"]

\* Topic.create_topic on the answer a: what it logs and how it ends.
create_topic(a) ==
    IF a = "created" THEN [log |-> "debug", result |-> "returned"]
    ELSE IF IsKafkaException(a)
    THEN IF a = "TOPIC_ALREADY_EXISTS"
         THEN [log |-> "warning", result |-> "returned"]
         ELSE [log |-> "error", result |-> "raised"]
    ELSE [log |-> "none", result |-> "raised"]

\* topic.create_topic() called by the program on a constructed Topic.
CreateTopic(a) ==
    /\ todo > 0
    /\ topics # <<>>
    /\ a \in Answers
    /\ todo' = todo - 1
    /\ exists' = (exists \/ a = "created")
    /\ admin' = Append(admin, [answer |-> a, log |-> create_topic(a).log,
                               result |-> create_topic(a).result])
    /\ UNCHANGED <<engineVars, topicVars, _instances, made, got, hist, dicts, conf, topics>>

NextConf ==
    \/ \E o \in Overrides : Configure(o)
    \/ \E o \in Overrides : Construct(o)
    \/ \E a \in {"created", "TOPIC_ALREADY_EXISTS", "INVALID_REPLICATION_FACTOR", "TimeoutError"} : CreateTopic(a)

\* Programs that configure the Registry, construct Topics and create them
\* at a broker that has the topic already or not.
InitConf ==
    /\ NoRegistry
    /\ exists \in BOOLEAN
    /\ todo = MaxCalls
    /\ NoTopicUse
    /\ NoEngineUse

SpecConf == InitConf /\ [][NextConf]_vars

\* ======================================================== the claims
Ended(r) == result[r].how # "none"
Raisers(r) == {w \in ThreadsOf(r) : src[SourceOf(w)].end \in {"ValueError", "KeyboardInterrupt"}}
SourceExc(w) == Exc(src[SourceOf(w)].end, w, "source")

\* The main thread waits on an empty queue that no thread of the run will
\* ever fill: every thread is dead or inside a pull that never returns.
AtRest(w) ==
    \/ wk[w].pc = "dead"
    \/ /\ wk[w].pc = "pull"
       /\ wk[w].pos = src[SourceOf(w)].len
       /\ src[SourceOf(w)].end = "forever"
Stuck(r) ==
    /\ run = r
    /\ mainpc = "get"
    /\ queue[r] = <<>>
    /\ \A w \in ThreadsOf(r) : AtRest(w)

\* C1 (as stated): if exactly one registered source raises while its worker
\* iterates it, start() ends by raising that same exception object, whatever
\* the other sources do (runs cut short by the user's Ctrl-C set aside).
C1_Original ==
    \A r \in Runs :
        (Cardinality(Raisers(r)) = 1 /\ Ended(r) /\ ~result[r].intr) =>
            \E w \in Raisers(r) :
                /\ result[r].how = "raised"
                /\ result[r].exc = SourceExc(w)

\* C1 (amended): if exactly one registered source raises and the user does
\* not interrupt, start() never returns normally and never waits forever; it
\* ends by raising that same exception object, except that a KeyboardInterrupt
\* raised by the source ends it through exit(), i.e. with SystemExit.
C1_OneRaiser ==
    \A r \in Runs :
        Cardinality(Raisers(r)) = 1 =>
            /\ ~Stuck(r)
            /\ (Ended(r) /\ ~result[r].intr) =>
                  \E w \in Raisers(r) :
                      IF src[SourceOf(w)].end = "KeyboardInterrupt"
                      THEN result[r].how = "SystemExit"
                      ELSE /\ result[r].how = "raised"
                           /\ result[r].exc = SourceExc(w)

\* start() has raised the one failing source's exception while another
\* thread of the run was still running.
C1_Witness ==
    \E r \in Runs : \E w \in Raisers(r) :
        /\ Cardinality(Raisers(r)) = 1
        /\ result[r].how = "raised"
        /\ result[r].exc = SourceExc(w)
        /\ wk[w].pos > 0
        /\ \E v \in ThreadsOf(r) : v # w /\ wk[v].pc \in {"call", "route"}

\* C2: when every registered source is finite and nothing raises, the main
\* thread is never left waiting on the empty queue after the last worker has
\* put its completion value and ended, so start() goes on to return.
AllFinite(r) == \A w \in ThreadsOf(r) : src[SourceOf(w)].end = "stop"

C2_NeverStuck ==
    \A r \in Runs : (ThreadsOf(r) # {} /\ AllFinite(r)) => ~Stuck(r)

\* C3: once start() has gone through its thread list, distribute_messages
\* has begun exactly once for every registered pair, whatever the length of
\* the source, and never for anything else nor more than once.
C3_OneWorkerPerSource ==
    /\ \A w \in Workers : starts[w] <= 1
    /\ \A w \in Workers : starts[w] = 1 => <<KeyOf(w), SourceOf(w)>> \in threads[RunOf(w)]
    /\ mainpc \in {"check", "get"} =>
          \A p \in iterables : starts[<<run, p[1], p[2]>>] = 1

\* start() is waiting with a zero-length and a longer source both started.
C3_Witness ==
    /\ mainpc \in {"check", "get"}
    /\ \E p \in iterables : src[p[2]].len = 0 /\ starts[<<run, p[1], p[2]>>] = 1
    /\ \E p \in iterables : src[p[2]].len = MaxLen /\ starts[<<run, p[1], p[2]>>] = 1

\* C4: every end of start() (normal return, raised exception, interruption)
\* leaves the source set empty, and a start() begun on the empty source set
\* builds no thread.
C4_SourcesCleared ==
    [][ /\ (mainpc \in {"spawn", "check", "get"} /\ mainpc' = "idle") => iterables' = {}
        /\ (mainpc = "idle" /\ mainpc' = "spawn" /\ iterables = {}) =>
              /\ threads'[run'] = {}
              /\ \A w \in Workers : RunOf(w) = run' => wk'[w].pc = "none" ]_vars

\* A second start() has run without workers after a first one that had a
\* worker and ended by raising.
C4_Witness ==
    /\ run = 2
    /\ threads[1] # {}
    /\ result[1].how = "raised"
    /\ threads[2] = {}
    /\ result[2].how = "returned"

\* C5: at a normal return of start() every thread of the run is dead and
\* has called each listener of its source once per element of the source,
\* in the source's iteration order.
ExpectedCalls(w) ==
    LET ls == Listeners(w)
        s == SourceOf(w)
    IN  [j \in 1..(src[s].len * Len(ls)) |->
            [h |-> ls[((j - 1) % Len(ls)) + 1],
             msg |-> Element(s, ((j - 1) \div Len(ls)) + 1)]]
CallsMade(w) == [j \in 1..Len(calls[w]) |-> [h |-> calls[w][j].h, msg |-> calls[w][j].msg]]
Delivered(r) ==
    \A w \in ThreadsOf(r) : wk[w].pc = "dead" /\ CallsMade(w) = ExpectedCalls(w)

C5_AllDelivered ==
    [][ (mainpc = "check" /\ mainpc' = "idle" /\ result'[run].how = "returned")
            => Delivered(run)' ]_vars

\* start() has returned after sources [0] and [10, 11] under one handler:
\* three calls, 10 before 11.
C5_Witness ==
    /\ result[1].how = "returned"
    /\ \E v \in ThreadsOf(1), w \in ThreadsOf(1) :
          /\ [j \in 1..Len(calls[v]) |-> calls[v][j].msg] = <<0>>
          /\ [j \in 1..Len(calls[w]) |-> calls[w][j].msg] = <<10, 11>>

\* ---------------------------------------------- dispatch of one message
\* The values a user function hands over for msg, from what it returns.
Produced(shape, msg) ==
    IF shape.ret \in {"gen", "gen2"}
    THEN Returned(shape, msg).vals
    ELSE <<Returned(shape, msg).val>>

\* The sink calls of worker w for the call c of a user function.
WritesFor(w, c) == SelectSeq(writes[w], LAMBDA x : x.h = c.h /\ x.msg = c.msg)

\* The value a recorded sink call passed on.
RoutedValue(x) ==
    IF x.form = "kw" THEN Tuple(<<x.key.items[1], x.val.items[1]>>) ELSE x.val

\* The j-th of the routings of an output to ns sinks: element-major.
ValueIndex(j, ns) == ((j - 1) \div ns) + 1
SinkIndex(j, ns) == ((j - 1) % ns) + 1

\* The j-th call of worker w has been dispatched to the end without error.
Dispatched(w, j) ==
    \/ j < Len(calls[w])
    \/ /\ j = Len(calls[w])
       /\ wk[w].exc = None
       /\ wk[w].pc \in {"pull", "call", "putnone", "exit", "dead"}

\* C6: a worker pulls the next element of its source only when, for every
\* call of a user function it has made, the function has returned and every
\* sink write for its output has been made.
C6_Sequential ==
    [][ \A w \in Workers :
          wk'[w].pos > wk[w].pos =>
              /\ wk[w].pc = "pull"
              /\ \A j \in 1..Len(calls[w]) :
                    LET c == calls[w][j]
                    IN  Len(WritesFor(w, c)) =
                          Len(Produced(hcfg[c.h], c.msg)) * Len(hcfg[c.h].sinks) ]_vars

\* A worker is at its second element with the several sink writes of the
\* first one made.
C6_Witness ==
    \E w \in Workers :
        /\ wk[w].pos = 2
        /\ Len(calls[w]) >= 1
        /\ Len(WritesFor(w, calls[w][1])) >= 2

\* C7: a user function with a catch-all keyword parameter is called with the
\* message and exactly the run kwargs; one with parameters but no catch-all
\* with the message only; one without parameters with no argument.
C7_CallConvention ==
    \A w \in Workers : \A j \in 1..Len(calls[w]) :
        LET c == calls[w][j]
            shape == hcfg[c.h]
        IN  IF shape.varkw
            THEN c.args = <<c.msg>> /\ c.kwargs = kw[RunOf(w)]
            ELSE IF shape.npos > 0
            THEN c.args = <<c.msg>> /\ c.kwargs = {}
            ELSE c.args = <<>> /\ c.kwargs = {}

\* A user function has been called with the message and non-empty run kwargs.
C7_Witness ==
    \E w \in Workers : \E j \in 1..Len(calls[w]) :
        /\ calls[w][j].kwargs # {}
        /\ calls[w][j].args = <<calls[w][j].msg>>
        /\ hcfg[calls[w][j].h].npos = 1

\* C8: routing to a Cache sink: a (key, value) tuple makes exactly one call
\* sink(key=key, val=value); a non-tuple raises ValueError and makes no call.
C8_CacheRouting ==
    [][ \A w \in Workers :
          (wk[w].pc = "route" /\ wk'[w] # wk[w]
             /\ hcfg[CurrentHandler(w)].sinks[wk[w].si] = "Cache") =>
              LET v == Produced(hcfg[CurrentHandler(w)], CurrentMsg(w))[wk[w].vi]
              IN  /\ (v.tup /\ Len(v.items) = 2) =>
                        /\ Len(writes'[w]) = Len(writes[w]) + 1
                        /\ SubSeq(writes'[w], 1, Len(writes[w])) = writes[w]
                        /\ LET x == writes'[w][Len(writes'[w])]
                           IN  /\ x.kind = "Cache" /\ x.sink = wk[w].si
                               /\ x.form = "kw"
                               /\ x.key = Scalar(v.items[1])
                               /\ x.val = Scalar(v.items[2])
                        /\ wk'[w].exc = None
                  /\ ~v.tup =>
                        /\ writes'[w] = writes[w]
                        /\ wk'[w].pc = "putexc"
                        /\ wk'[w].exc = Exc("ValueError", w, "sink") ]_vars

\* A worker has written a (key, value) tuple to a Cache and then raised the
\* ValueError for a non-tuple routed to it.
C8_Witness ==
    \E w \in Workers :
        /\ \E j \in 1..Len(writes[w]) : writes[w][j].kind = "Cache" /\ writes[w][j].form = "kw"
        /\ wk[w].exc = Exc("ValueError", w, "sink")

\* C9: the sink calls made for one call of a user function follow the
\* order: each produced value (the elements of a generator, else the single
\* return value) to each sink of the list in turn; when the dispatch ends
\* without error every value has been routed exactly once to every sink.
C9_RoutedToEverySink ==
    \A w \in Workers : \A j \in 1..Len(calls[w]) :
        LET c == calls[w][j]
            vals == Produced(hcfg[c.h], c.msg)
            ns == Len(hcfg[c.h].sinks)
            ws == WritesFor(w, c)
        IN  /\ Len(ws) <= Len(vals) * ns
            /\ \A i \in 1..Len(ws) :
                  /\ ws[i].vi = ValueIndex(i, ns)
                  /\ ws[i].sink = SinkIndex(i, ns)
                  /\ RoutedValue(ws[i]) = vals[ValueIndex(i, ns)]
            /\ Dispatched(w, j) => Len(ws) = Len(vals) * ns

\* A generator's two elements have each been routed to both of two sinks.
C9_Witness ==
    \E w \in Workers :
        /\ Len(calls[w]) >= 1
        /\ Dispatched(w, 1)
        /\ hcfg[calls[w][1].h].ret = "gen2"
        /\ Len(WritesFor(w, calls[w][1])) = 4

\* C10 (as stated): a KeyboardInterrupt arriving while start() waits is
\* caught and start() returns normally, no exception reaching the caller.
C10_Original ==
    \A r \in Runs : result[r].intr => result[r].how = "returned"

\* C10 (amended): a KeyboardInterrupt arriving while start() waits is caught
\* and never reaches the caller, but start() does not return: it calls
\* exit(), so SystemExit propagates out of the call.
C10_InterruptExits ==
    \A r \in Runs : result[r].intr =>
        /\ result[r].how = "SystemExit"
        /\ result[r].exc.kind # "KeyboardInterrupt"

\* The user has interrupted a start() whose worker was still running.
C10_Witness ==
    \E r \in Runs :
        /\ result[r].intr
        /\ \E w \in ThreadsOf(r) : Alive(w)

\* C11 (as stated): when several workers fail during one start(), the call
\* raises exactly one exception, the first exception value put on the queue
\* (runs cut short by the user's Ctrl-C set aside).
C11_Original ==
    \A r \in Runs :
        (Ended(r) /\ ~result[r].intr /\ puts[r] # <<>>) =>
            /\ result[r].how = "raised"
            /\ result[r].exc = Head(puts[r])

\* C11 (amended): when workers fail during one start() and the user does not
\* interrupt, the call ends on the first exception value put on the queue and
\* on no later one: it raises that value, except that a KeyboardInterrupt
\* value ends the call through exit(), i.e. with SystemExit. A start() that
\* returned normally had no exception put on its queue.
C11_FirstPutWins ==
    \A r \in Runs :
        /\ (Ended(r) /\ ~result[r].intr /\ puts[r] # <<>>) =>
              IF Head(puts[r]).kind = "KeyboardInterrupt"
              THEN result[r].how = "SystemExit"
              ELSE /\ result[r].how = "raised"
                   /\ result[r].exc = Head(puts[r])
        /\ result[r].how = "returned" => puts[r] = <<>>

\* start() has raised the first value put while a second worker's exception,
\* put later, is left on the queue.
C11_Witness ==
    \E r \in Runs :
        /\ Len(puts[r]) = 2
        /\ result[r].how = "raised"
        /\ result[r].exc = puts[r][1]
        /\ queue[r] = <<puts[r][2]>>
        /\ puts[r][2] # puts[r][1]

\* The iterations of a Topic whose consumer starts at the beginning of the log.
FromBeginning == tcfg.offset = Some(READ_FROM_START)
Yielded(i) == {iters[i].out[k] : k \in 1..Len(iters[i].out)}
Window(a, b, c) == {o \in 0..MaxOffset - 1 : o >= a /\ o < b /\ (o - a) % c = 0}

\* C12: on a topic holding offsets 0..N-1 whose consumer starts at the
\* beginning, an iteration of topic[a:b:c] yields only offsets of
\* {a, a+c, a+2c, ...} within [a, b), and all of them once it has returned.
C12_SliceWindow ==
    \A i \in Iterations :
        LET e == iters[i].expr
        IN  (/\ FromBeginning
             /\ e.kind = "slice"
             /\ e.start # Nothing /\ e.stop # Nothing /\ e.step # Nothing
             /\ e.start[1] >= 0) =>
                /\ Yielded(i) \subseteq Window(e.start[1], e.stop[1], e.step[1])
                /\ iters[i].how = "returned" =>
                      Yielded(i) = Window(e.start[1], e.stop[1], e.step[1])

\* C13: for every integer i >= 0, an iteration of topic[i] on a topic whose
\* consumer starts at the beginning yields only the message at offset i.
C13_IndexYieldsOnlyI ==
    \A i \in Iterations :
        LET e == iters[i].expr
        IN  (FromBeginning /\ e.kind = "int" /\ e.i[1] >= 0) =>
                Yielded(i) \subseteq {e.i[1]}

\* C14: whenever an iteration of a Topic has ended (stop reached, exception
\* raised in the poll loop, or closed early by the caller), the consumer
\* handle it used is closed.
C14_ClosedOnExit ==
    \A i \in Iterations :
        (iters[i].pc = "ended" /\ iters[i].h # 0) => consumers[iters[i].h].closed

\* A slice that had yielded a message ended on an exception of the poll
\* loop, and its handle is closed.
C14_Witness ==
    \E i \in Iterations :
        /\ iters[i].expr.kind = "slice"
        /\ iters[i].how = "raised"
        /\ iters[i].err = "KafkaException"
        /\ iters[i].out # <<>>
        /\ consumers[iters[i].h].closed

\* C15: each separate iteration of one Topic subscribes with a newly created
\* consumer handle: an iteration created once the earlier ones were over does
\* not use the handle of any of them, and its subscribe and polls do not fail
\* on a closed handle.
C15_FreshHandle ==
    \A i, j \in Iterations :
        (i < j /\ iters[j].after = j - 1 /\ iters[i].h # 0 /\ iters[j].h # 0) =>
            /\ iters[i].h # iters[j].h
            /\ iters[j].err # "RuntimeError"

\* C16: once next(topic[0]) has read the first message and that iteration is
\* over, a plain iteration of the same Topic does not fail and yields the
\* offsets 1, 2, ... in order.
C16_ContinuesAfterIndex ==
    (/\ Len(iters) = 2
     /\ iters[1].expr = IntIndex(0)
     /\ iters[1].out = <<0>>
     /\ iters[1].how = "closed"
     /\ iters[2].expr = PlainIter
     /\ iters[2].after = 1) =>
        /\ iters[2].how # "raised"
        /\ \A k \in 1..Len(iters[2].out) : iters[2].out[k] = k

\* C20: in the poll loop an empty poll is skipped and polling continues; a
\* message carrying an error ends the iteration with KafkaException when the
\* error is fatal, or not retriable, or raise_error is set, and is otherwise
\* logged while polling continues; what is yielded is always a real message.
C20_PollPolicy ==
    \A i \in Iterations :
        LET it == iters[i]
            m == it.last
            strict == tcfg.raise_error \/ m.fatal \/ ~m.retriable
        IN  /\ m.kind = "empty" => it.pc = "polling"
            /\ (m.kind = "error" /\ strict) =>
                  it.pc = "ended" /\ it.how = "raised" /\ it.err = "KafkaException"
            /\ (m.kind = "error" /\ ~strict) => it.pc = "polling" /\ it.logged > 0
            /\ it.pc = "yielded" =>
                  m.kind = "message" /\ m.offset = Some(it.out[Len(it.out)])

\* A retriable error was logged after a message had been yielded, and the
\* iteration polls on.
C20_Witness ==
    \E i \in Iterations :
        /\ iters[i].last = Error(FALSE, TRUE)
        /\ iters[i].logged = 1
        /\ iters[i].out # <<>>
        /\ iters[i].pc = "polling"

\* C17: a Topic has no producer handle until its first produce call; from
\* then on it has exactly one producer handle and one push function, and the
\* push function has been called once per call topic(val, key), with (key, val).
C17_OneProducer ==
    /\ tcalls = <<>> => (producers = 0 /\ pushfns = 0 /\ _producer = 0)
    /\ tcalls # <<>> => (producers = 1 /\ pushfns = 1 /\ _producer = 1)
    /\ Len(pushes) = Len(tcalls)
    /\ \A k \in 1..Len(tcalls) : pushes[k] = <<tcalls[k][2], tcalls[k][1]>>

\* Two different produce calls were made and one producer handle exists.
C17_Witness ==
    /\ Len(tcalls) = MaxSends
    /\ tcalls[1] # tcalls[2]
    /\ tcalls[2][2] = "k"
    /\ producers = 1

\* C18: on a Topic configured with dry, no produce call submits a message to
\* the producer handle or polls it: every call logs one warning and returns.
C18_DryRun ==
    tcfg.dry => (plog = <<>> /\ warnings = Len(tcalls))

\* A dry Topic with a codec has been called as often as the program does.
C18_Witness ==
    /\ tcfg.dry
    /\ tcfg.codec
    /\ Len(tcalls) = MaxSends
    /\ warnings = MaxSends

\* C19: once a Topic that has produced at least one message has been
\* discarded, flush(flush_timeout) has been called on its producer handle.
C19_FlushOnDelete ==
    (deleted # "no" /\ ~tcfg.dry /\ tcalls # <<>>) =>
        \E k \in 1..Len(plog) : plog[k] = FlushCall(tcfg.flush_timeout)

\* The policy is manual and per message: enable.auto.commit is false and
\* commit_each_message is set.
ManualPerMessage ==
    /\ tcfg.auto_commit \in {PyBool(FALSE), PyStr("false"), PyStr("FALSE")}
    /\ tcfg.commit_each_message
Consumed(c) == c.pos - c.from

C29_AssignOffsets ==
    \A h \in 1..Len(consumers) :
        consumers[h].subscribed =>
            IF tcfg.offset # Nothing
            THEN /\ Len(consumers[h].assigned) = Len(env.partitions)
                 /\ \A k \in 1..Len(env.partitions) :
                        consumers[h].assigned[k] = tcfg.offset[1]
            ELSE consumers[h].assigned = env.partitions

\* A Topic configured with the absolute offset 0 was assigned two partitions
\* that the broker handed over at the offsets 1 and 0.
C29_Witness ==
    /\ tcfg.offset = Some(0)
    /\ env.partitions = <<1, 0>>
    /\ Len(consumers) = 1
    /\ consumers[1].assigned = <<0, 0>>

\* C30: for every slice with an integer stop, stop = 0 included, no message
\* of offset >= stop is yielded, and the iteration has ended and closed its
\* consumer once a message of offset >= stop has been polled.
C30_StopBound ==
    \A i \in Iterations :
        LET e == iters[i].expr
            m == iters[i].last
        IN  (e.kind = "slice" /\ e.stop # Nothing) =>
                /\ \A o \in Yielded(i) : o < e.stop[1]
                /\ (m.kind = "message" /\ m.offset[1] >= e.stop[1]) =>
                      /\ iters[i].pc = "ended"
                      /\ consumers[iters[i].h].closed

\* The last call of hist that gave the key k a value.
LastGiving(k) ==
    LET I == {i \in 1..Len(hist) : k \in DOMAIN hist[i]}
    IN  CHOOSE i \in I : \A j \in I : j <= i

\* C22: every call that obtains the Registry returns one and the same
\* object, and its config is the right-biased merge of all the overrides
\* passed so far: a key is there exactly when some call gave it, with the
\* value of the last call that gave it.
C22_SingleRegistry ==
    /\ made <= 1
    /\ got \subseteq {1}
    /\ conf # 0 =>
          \A k \in ConfKeys :
              IF \E i \in 1..Len(hist) : k \in DOMAIN hist[i]
              THEN /\ k \in DOMAIN dicts[conf]
                   /\ dicts[conf][k] = hist[LastGiving(k)][k]
              ELSE k \notin DOMAIN dicts[conf]

\* Three calls: both keys set, one key overridden, the same override again;
\* the other key has kept its first value.
C22_Witness ==
    /\ Len(hist) = 3
    /\ hist[1] = [k \in ConfKeys |-> "a"]
    /\ hist[2] = [k \in {"group.id"} |-> "b"]
    /\ hist[3] = hist[2]
    /\ dicts[conf] = [k \in ConfKeys |-> IF k = "group.id" THEN "b" ELSE "a"]

\* C23: a Topic's config is the Registry config at its construction with the
\* Topic's own overrides winning per key; it stays so whatever is configured
\* later, and the construction left the Registry config as it was.
C23_TopicSnapshot ==
    \A i \in 1..Len(topics) :
        LET t == topics[i]
            c == dicts[t.conf]
        IN  /\ DOMAIN c = DOMAIN t.base \cup DOMAIN t.over
            /\ \A k \in DOMAIN c :
                  c[k] = IF k \in DOMAIN t.over THEN t.over[k] ELSE t.base[k]
            /\ t.reg = t.base

\* A Topic constructed with an override of a configured key, and the
\* Registry configured again afterwards to something the Topic does not have.
C23_Witness ==
    /\ Len(topics) = 1
    /\ Len(hist) = 2
    /\ topics[1].base = [k \in {"group.id"} |-> "a"]
    /\ topics[1].over = [k \in {"group.id"} |-> "b"]
    /\ dicts[conf] = [k \in ConfKeys |-> "a"]
    /\ dicts[topics[1].conf] = [k \in {"group.id"} |-> "b"]

\* C26: create_topic returns normally with a warning when the broker reports
\* that the topic already exists, returns normally when the topic was
\* created, and raises on every other failure.
C26_CreateTopic ==
    \A i \in 1..Len(admin) :
        LET r == admin[i]
        IN  /\ r.answer = "TOPIC_ALREADY_EXISTS" =>
                  (r.result = "returned" /\ r.log = "warning")
            /\ r.answer = "created" => r.result = "returned"
            /\ r.answer \notin {"TOPIC_ALREADY_EXISTS", "created"} => r.result = "raised"

\* The topic was created by a first call and a second call found it there.
C26_Witness ==
    /\ Len(admin) = 2
    /\ admin[1].answer = "created"
    /\ admin[2].answer = "TOPIC_ALREADY_EXISTS"
    /\ admin[2].result = "returned"

\* C24: registering a pair that is already in the source set leaves the set
\* unchanged; a source is held in at most one pair however many handlers
\* were bound to it, a run has at most one thread per source, and when
\* start() has started its threads each of them was started exactly once.
Holds(s) == {p \in iterables : p[2] = s}
C24_HeldOnce ==
    /\ \A p \in iterables : register_iterables(p[1], p[2]) = iterables
    /\ \A s \in Sources : Cardinality(Holds(s)) <= 1
    /\ \A r \in Runs, s \in Sources :
           Cardinality({w \in ThreadsOf(r) : SourceOf(w) = s}) <= 1
    /\ \A w \in Workers : starts[w] <= 1
    /\ mainpc = "check" => \A w \in ThreadsOf(run) : starts[w] = 1

\* Both handlers were bound to source 1; the run had one thread for it,
\* started once, and the thread has called both handlers.
C24_Witness ==
    /\ Len(subs[IdOf(1)]) = 2
    /\ {w \in ThreadsOf(1) : SourceOf(w) = 1} = {<<1, IdOf(1), 1>>}
    /\ starts[<<1, IdOf(1), 1>>] = 1
    /\ wk[<<1, IdOf(1), 1>>].pc = "dead"
    /\ {calls[<<1, IdOf(1), 1>>][j].h : j \in 1..Len(calls[<<1, IdOf(1), 1>>])} = {1, 2}

\* C25: a thread never calls a handler twice with the same element; every
\* element it pulls is published when handlers are bound to its source, and
\* when the publication of an element returns, each handler then bound to
\* the source has been called with it exactly once. This holds for the
\* thread of every source a handler is bound to.
Received(w, h, i) ==
    {j \in 1..Len(calls[w]) :
        calls[w][j].h = h /\ calls[w][j].msg = Element(SourceOf(w), i)}
Publishing(w) == wk[w].pc \in {"call", "route"}
C25_FanOut ==
    [][ \A w \in Workers :
          /\ \A h \in Handlers, i \in 1..MaxLen : Cardinality(Received(w, h, i))' <= 1
          /\ (wk'[w].pos > wk[w].pos /\ Listeners(w) # <<>>) => Publishing(w)'
          /\ (Publishing(w) /\ wk'[w].pc = "pull") =>
                \A k \in 1..Len(Listeners(w)) :
                    Cardinality(Received(w, Listeners(w)[k], wk[w].pos))' = 1 ]_vars

\* Handler 1 bound to both sources and handler 2 to source 1: the thread
\* of source 1 made MaxLen calls to each of them, the thread of source 2
\* one call to handler 1.
C25_Witness ==
    /\ subs[IdOf(1)] = <<1, 2>>
    /\ subs[IdOf(2)] = <<1>>
    /\ wk[<<1, IdOf(1), 1>>].pc = "dead"
    /\ wk[<<1, IdOf(2), 2>>].pc = "dead"
    /\ \A h \in {1, 2} : \A i \in 1..MaxLen : Cardinality(Received(<<1, IdOf(1), 1>>, h, i)) = 1
    /\ Cardinality(Received(<<1, IdOf(2), 2>>, 1, 1)) = 1
    /\ Received(<<1, IdOf(2), 2>>, 2, 1) = {}

\* C27: an exception raised by the user function or by the routing of its
\* output is caught by the thread that was dispatching the element: that
\* thread makes no further call and pulls no further element, puts the
\* exception on the queue of its run, and a start() that ends on that put
\* without a Ctrl-C raises that exception and never returns normally.
Dispatching == {"handler", "sink"}
C27_DispatchExc ==
    \A w \in Workers :
        (wk[w].exc # None /\ wk[w].exc.at \in Dispatching) =>
            /\ wk[w].exc.by = w
            /\ wk[w].pc \in {"putexc", "putnone", "exit", "dead"}
            /\ calls[w] # <<>>
            /\ calls[w][Len(calls[w])].msg = Element(SourceOf(w), wk[w].pos)
            /\ wk[w].pc # "putexc" =>
                  \E j \in 1..Len(puts[RunOf(w)]) : puts[RunOf(w)][j] = wk[w].exc
            /\ (Ended(RunOf(w)) /\ ~result[RunOf(w)].intr) =>
                  /\ result[RunOf(w)].how # "returned"
                  /\ Head(puts[RunOf(w)]) = wk[w].exc =>
                        /\ result[RunOf(w)].how = "raised"
                        /\ result[RunOf(w)].exc = wk[w].exc

\* A scalar output routed to a Cache sink raised ValueError at the first of
\* MaxLen elements: start() raised it and the second element was not pulled.
C27_Witness ==
    \E w \in Workers :
        /\ wk[w].exc = Exc("ValueError", w, "sink")
        /\ hcfg[calls[w][1].h].ret = "val"
        /\ hcfg[calls[w][1].h].sinks = <<"Cache">>
        /\ result[RunOf(w)].how = "raised"
        /\ result[RunOf(w)].exc = wk[w].exc
        /\ wk[w].pos = 1
        /\ src[SourceOf(w)].len = MaxLen
        /\ wk[w].pc = "dead"

\* C28: every element a thread pulls is published under the token its pair
\* was registered with: when handlers are subscribed under that token the
\* pull is followed by their calls, and when the publication returns each of
\* them has been called once with the element and the kwargs of the run.
Subscribers(w) == subs[KeyOf(w)]
GotIt(w, h) ==
    {j \in 1..Len(calls[w]) :
        /\ calls[w][j].h = h
        /\ calls[w][j].msg = CurrentMsg(w)
        /\ calls[w][j].kwargs = kw[RunOf(w)]}
C28_RegisteredIdentity ==
    [][ \A w \in Workers :
          /\ (wk'[w].pos > wk[w].pos /\ Subscribers(w) # <<>>) => Publishing(w)'
          /\ (Publishing(w) /\ wk'[w].pc = "pull") =>
                \A k \in 1..Len(Subscribers(w)) :
                    Cardinality(GotIt(w, Subscribers(w)[k]))' = 1 ]_vars

\* C28 (own token): the same statement for the pairs registered under
\* str(id(it)), the token snap uses.
C28_OwnIdentity ==
    [][ \A w \in Workers : KeyOf(w) = IdOf(SourceOf(w)) =>
          /\ (wk'[w].pos > wk[w].pos /\ Subscribers(w) # <<>>) => Publishing(w)'
          /\ (Publishing(w) /\ wk'[w].pc = "pull") =>
                \A k \in 1..Len(Subscribers(w)) :
                    Cardinality(GotIt(w, Subscribers(w)[k]))' = 1 ]_vars

\* C31: an iteration of a slice with a step yields only offsets o with
\* (o - max(0, start)) % step = 0, an omitted start counting as 0, and it
\* does not end on a TypeError.
StrideBase(b) == IF b.start = Nothing THEN 0 ELSE Max(0, b.start[1])
Strided(i) == iters[i].expr.kind = "slice" /\ Truthy(Bounds(iters[i].expr).step)
OnStride(i) ==
    /\ iters[i].err # "TypeError"
    /\ \A o \in Yielded(i) :
          (o - StrideBase(Bounds(iters[i].expr))) % Bounds(iters[i].expr).step[1] = 0
C31_Stride ==
    \A i \in Iterations : Strided(i) => OnStride(i)

\* C31 (start given): the same statement for the slices that name a start,
\* negative ones included.
C31_StrideFromStart ==
    \A i \in Iterations :
        (Strided(i) /\ iters[i].expr.start # Nothing) => OnStride(i)

\* C32: routing a tuple to a Cache or Topic sink: a tuple of two elements
\* makes the one call sink(key=key, val=value); a tuple of any other length
\* routed to a Topic makes the one call sink(value) and raises nothing.
Routing(w) == wk[w].pc = "route" /\ wk'[w] # wk[w]
RoutedTo(w) == hcfg[CurrentHandler(w)].sinks[wk[w].si]
RoutedOutput(w) == Produced(hcfg[CurrentHandler(w)], CurrentMsg(w))[wk[w].vi]
OneMoreWrite(w) ==
    /\ Len(writes'[w]) = Len(writes[w]) + 1
    /\ SubSeq(writes'[w], 1, Len(writes[w])) = writes[w]
    /\ writes'[w][Len(writes'[w])].kind = RoutedTo(w)
    /\ writes'[w][Len(writes'[w])].sink = wk[w].si
    /\ wk'[w].exc = None
UnpackedPair(w) ==
    (RoutedOutput(w).tup /\ Len(RoutedOutput(w).items) = 2) =>
        /\ OneMoreWrite(w)
        /\ writes'[w][Len(writes'[w])].form = "kw"
        /\ writes'[w][Len(writes'[w])].key = Scalar(RoutedOutput(w).items[1])
        /\ writes'[w][Len(writes'[w])].val = Scalar(RoutedOutput(w).items[2])
C32_TupleRouting ==
    [][ \A w \in Workers :
          (Routing(w) /\ RoutedTo(w) \in {"Cache", "Topic"}) =>
              /\ UnpackedPair(w)
              /\ (RoutedOutput(w).tup /\ Len(RoutedOutput(w).items) # 2
                     /\ RoutedTo(w) = "Topic") =>
                    /\ OneMoreWrite(w)
                    /\ writes'[w][Len(writes'[w])].form = "pos"
                    /\ writes'[w][Len(writes'[w])].val = RoutedOutput(w) ]_vars

\* C32 (pairs): the same statement for the tuples of two elements alone.
C32_PairRouting ==
    [][ \A w \in Workers :
          (Routing(w) /\ RoutedTo(w) \in {"Cache", "Topic"}) => UnpackedPair(w) ]_vars

\* C33: every next(topic) call advances the one iteration the first call
\* created: one generator and one handle exist, the handle is subscribed
\* once and stays open while the iteration is not over, each call yields at
\* most one message, and the messages come in poll order from where the
\* reading began.
C33_OneIteration ==
    nexts # <<>> =>
        LET i == nexts[1].it
            h == iters[i].h
        IN  /\ _consumer_ctx = i
            /\ \A j \in 1..Len(nexts) : nexts[j].it = i
            /\ Len(iters) = 1
            /\ Len(consumers) = 1
            /\ Len(iters[i].out) <= Len(nexts)
            /\ iters[i].pc = "yielded" =>
                  Len(iters[i].out) = Len(nexts)
            /\ \A k \in 1..Len(iters[i].out) :
                  iters[i].out[k] = consumers[h].from + k - 1
            /\ iters[i].pc # "ended" =>
                  consumers[h].subscribed /\ ~consumers[h].closed

\* Three calls returned the three messages of the log, 0, 1, 2.
C33_Witness ==
    /\ Len(nexts) = 3
    /\ _consumer_ctx = 1
    /\ iters[1].pc = "yielded"
    /\ iters[1].out = <<0, 1, 2>>
    /\ ~consumers[iters[1].h].closed

\* C34: an iteration of topic[i] or of a slice that the caller does not
\* close ends in two ways only: it returns when the stop is positive and a
\* message of offset >= stop was polled, or the poll loop raised. Without a
\* positive stop (stop omitted or 0, negative index) it never returns.
Sliced(i) == iters[i].expr.kind \in {"slice", "int"}
EndedByItself(i) == iters[i].pc = "ended" /\ iters[i].how # "closed"
ReachedStop(i) ==
    /\ iters[i].how = "returned"
    /\ Truthy(Bounds(iters[i].expr).stop)
    /\ iters[i].last.kind = "message"
    /\ iters[i].last.offset[1] >= Bounds(iters[i].expr).stop[1]
PollLoopRaised(i) ==
    /\ iters[i].how = "raised"
    /\ iters[i].err \in {"KafkaException", "RuntimeError"}
C34_Termination ==
    \A i \in Iterations :
        (Sliced(i) /\ EndedByItself(i)) => (ReachedStop(i) \/ PollLoopRaised(i))

\* C34 (start given): the same statement for the iterations other than the
\* slices with a step and no start.
C34_TerminationFromStart ==
    \A i \in Iterations :
        (Sliced(i) /\ EndedByItself(i) /\ ~(Strided(i) /\ iters[i].expr.start = Nothing))
            => (ReachedStop(i) \/ PollLoopRaised(i))

\* C35: under the manual per-message policy, while the caller holds a
\* message the loop has called commit once for every message it yielded but
\* that one, and an iteration that was closed by the caller or that stopped
\* at its stop bound has left the last message the loop yielded uncommitted.
C35_LastUncommitted ==
    \A i \in Iterations :
        (ManualPerMessage /\ iters[i].h # 0) =>
            LET c == consumers[iters[i].h]
            IN  /\ iters[i].pc = "yielded" => c.commits = Consumed(c) - 1
                /\ (iters[i].pc = "ended" /\ iters[i].how \in {"closed", "returned"}) =>
                      /\ Consumed(c) >= 1
                      /\ c.commits = Consumed(c) - 1

\* The caller closed a plain iteration on its second message: one commit.
C35_Witness ==
    \E i \in Iterations :
        /\ ManualPerMessage
        /\ iters[i].expr = PlainIter
        /\ iters[i].how = "closed"
        /\ Len(iters[i].out) = 2
        /\ consumers[iters[i].h].commits = 1

\* C36: the end of start(), however it ends, changes the state of no
\* thread, so the threads of a run that raised go on pulling and calling;
\* and once start() has returned normally no thread of that run moves, calls
\* a handler or writes to a sink any more.
C36_WorkersOutlive ==
    [][ /\ (mainpc # "idle" /\ mainpc' = "idle") => wk' = wk
        /\ \A w \in Workers :
              result[RunOf(w)].how = "returned" =>
                  /\ wk'[w] = wk[w]
                  /\ calls'[w] = calls[w]
                  /\ writes'[w] = writes[w] ]_vars

\* start() has raised the exception of source 2 and returned control; the
\* thread of source 1 holds its last element and is about to call a handler
\* with it.
C36_Witness ==
    \E r \in Runs : \E w \in ThreadsOf(r) : \E v \in ThreadsOf(r) :
        /\ mainpc = "idle"
        /\ result[r].how = "raised"
        /\ result[r].exc = SourceExc(w)
        /\ v # w
        /\ wk[v].pc = "call"
        /\ wk[v].pos = MaxLen
        /\ Len(calls[v]) >= 1

C38_NoExclusion ==
    \A w \in Workers :
        /\ wk[w].pc = "call" => ENABLED Call(w)
        /\ wk[w].pc = "route" => ENABLED Route(w)

\* The threads of sources 1 and 2 of one run are both routing the output of
\* the same handler to the same sink.
C38_Witness ==
    \E r \in Runs :
        LET w == <<r, IdOf(1), 1>>
            v == <<r, IdOf(2), 2>>
        IN  /\ wk[w].pc = "route"
            /\ wk[v].pc = "route"
            /\ CurrentHandler(w) = CurrentHandler(v)
            /\ hcfg[CurrentHandler(w)].sinks[wk[w].si] = hcfg[CurrentHandler(v)].sinks[wk[v].si]
            /\ wk[w].si = wk[v].si

\* C39: the listeners of a key are only ever added to, the end of start()
\* included; and a start() that returns normally has had every handler then
\* subscribed under the key of a source called once with every element of
\* that source, whether it was bound before this run or before an earlier one.
KeptListeners(k) ==
    /\ Len(subs'[k]) >= Len(subs[k])
    /\ SubSeq(subs'[k], 1, Len(subs[k])) = subs[k]
C39_SubscriptionsKept ==
    [][ /\ \A k \in Keys : KeptListeners(k)
        /\ (mainpc = "check" /\ mainpc' = "idle" /\ result'[run].how = "returned") =>
              \A w \in ThreadsOf(run) : \A k \in 1..Len(Listeners(w)) :
                  \A i \in 1..src[SourceOf(w)].len :
                      Cardinality(Received(w, Listeners(w)[k], i)) = 1 ]_vars

\* Handler 1 was bound before the first run and handler 2 between the runs:
\* the thread of the first run called handler 1 alone, the thread of the
\* second run called both, and the second start() has returned.
C39_Witness ==
    /\ subs[IdOf(1)] = <<1, 2>>
    /\ result[1].how = "returned"
    /\ result[2].how = "returned"
    /\ Len(calls[<<1, IdOf(1), 1>>]) = 1
    /\ calls[<<1, IdOf(1), 1>>][1].h = 1
    /\ Len(calls[<<2, IdOf(1), 1>>]) = 2
    /\ calls[<<2, IdOf(1), 1>>][1].h = 1
    /\ calls[<<2, IdOf(1), 1>>][2].h = 2

\* C40: whatever a source or a user function raises, a KeyboardInterrupt
\* included, the thread holds it and puts it on the queue of its run; and a
\* start() that ends, without a Ctrl-C of the user, on a KeyboardInterrupt
\* value taken from the queue ends through exit(): SystemExit reaches the
\* caller and the value is not raised.
SourceRaised(w) ==
    /\ SourceOf(w) \in DOMAIN src
    /\ src[SourceOf(w)].end \in {"ValueError", "KeyboardInterrupt"}
    /\ wk[w].pos = src[SourceOf(w)].len
    /\ wk[w].pc \in {"putexc", "putnone", "exit", "dead"}
    /\ wk[w].exc.at # "handler"
HandlerRaised(w) ==
    /\ calls[w] # <<>>
    /\ hcfg[calls[w][Len(calls[w])].h].ret \in Raising
Forwarded(w) ==
    wk[w].pc # "putexc" =>
        \E j \in 1..Len(puts[RunOf(w)]) : puts[RunOf(w)][j] = wk[w].exc
C40_InterruptValue ==
    /\ \A w \in Workers :
          /\ SourceRaised(w) => (wk[w].exc = SourceExc(w) /\ Forwarded(w))
          /\ HandlerRaised(w) =>
                /\ wk[w].exc = Exc(Thrown(hcfg[calls[w][Len(calls[w])].h]), w, "handler")
                /\ Forwarded(w)
    /\ \A r \in Runs :
          (Ended(r) /\ ~result[r].intr /\ puts[r] # <<>>
             /\ Head(puts[r]).kind = "KeyboardInterrupt") =>
              /\ result[r].how = "SystemExit"
              /\ result[r].exc = None

\* A user function raised KeyboardInterrupt: its thread put the value on the
\* queue and start() ended through exit(), the user not having interrupted.
C40_Witness ==
    \E w \in Workers :
        /\ wk[w].exc = Exc("KeyboardInterrupt", w, "handler")
        /\ puts[RunOf(w)] = <<wk[w].exc>>
        /\ result[RunOf(w)].how = "SystemExit"
        /\ ~result[RunOf(w)].intr

====
